---- MODULE Spec2Model ----
(***************************************************************************)
(* A state-machine model of the SILIC Digital Signer front end:            *)
(*   - MultipleItemsManager: the File Collection (selectedFiles), the      *)
(*     Signer Collection (the children of #signersContainer) and the       *)
(*     document-assignment matrix (the checkboxes of #assignmentMatrix);   *)
(*   - DigitalSignerApp: handleFormSubmit, the signing simulator           *)
(*     signMultipleDocuments, the result presenter and handleNewSignature; *)
(*   - FormValidator: the rule engine with its rules docUpload and         *)
(*     signerName, on a form that has one control of each name;            *)
(*   - start-up: the DOMContentLoaded handler and DigitalSignerApp.init.   *)
(*                                                                         *)
(* JavaScript strings whose characters the code inspects (signer names,    *)
(* e-mails, file names) are sequences of one-character strings.            *)
(* Utils.generateId() draws a random token; the model gives every new file *)
(* an id that no live object carries (collisions of the 9-character random *)
(* token are left out).  Utils.showAlert writes to the alert sink; the     *)
(* variable notices holds what the most recent handler sent to it.         *)
(* Utils.trackEvent / logError only write to the console and are left out. *)
(***************************************************************************)
EXTENDS Integers, Sequences, FiniteSets, TLC

VARIABLES
    selectedFiles,             \* MultipleItemsManager.selectedFiles
    signers,                   \* children of #signersContainer, in DOM order
    sequentialSigning,         \* #sequentialSigning.checked
    enableDocumentAssignment,  \* #enableDocumentAssignment.checked
    matrix,                    \* checkboxes under #assignmentMatrix, DOM order
    notices,                   \* alerts sent by the most recent handler
    loading,                   \* #loading is shown
    submitDisabled,            \* the submit button is disabled
    inflight,                  \* signing promises whose timer has not fired
    resultVisible,             \* #result is not hidden
    processData,               \* data-process-data of #downloadBtn
    lastSubmit,                \* history: "blocked" / "started" when the most
                               \* recent handler was handleFormSubmit, else "none"
    clearCalls,                \* history: calls of clearAllFiles since the most
                               \* recent other handler, up to MaxClearCalls
    downloaded,                \* history: the file the most recent handler
                               \* offered for download, NoDownload if none
    fvFiles,                   \* files of the control named docUpload
    fvValue,                   \* value of the control named signerName
    fvErrors,                  \* FormValidator.errors
    fvIsValid,                 \* FormValidator.isValid
    fvTimers,                  \* pending timers set by handleInput
    fvTimeout,                 \* field.validationTimeout of each control
    fvSince,                   \* history: ms since the last input event of
                               \* each control, up to the debounce delay
    fvBurst,                   \* history: input events of each control since
                               \* its timer last ran, up to MaxBurst
    fvOut,                     \* history: what the most recent call of
                               \* FormValidator.getFormData did
    i18n,                      \* window.i18n is set
    signFormPresent,           \* the page has the element #signForm
    browserSupported,          \* Utils.checkBrowserSupport reports every
                               \* required feature
    handlerPc,                 \* the DOMContentLoaded handler: "waiting", "done"
    handlerAttempts,           \* attempts of the DOMContentLoaded handler
    appPc,                     \* DigitalSignerApp.init: "absent" (no app yet),
                               \* "waiting", "ready", "failed"
    appAttempts,               \* attempts of waitForDependencies
    appParts,                  \* what init has set up
    windowManager,             \* window.multipleItemsManager
    bootAlerts,                \* alerts shown during start-up
    bootLog,                   \* console.warn / Utils.logError during start-up
    errorPanel                 \* .container holds the static error panel

\* the FormValidator and the form controls its rules name.  The inputs of
\* the signer items are named signerName[], signerEmail[] and signerRole[]:
\* no rule applies to them, and the handlers of MultipleItemsManager and
\* DigitalSignerApp never call the FormValidator.
fvVars == <<fvFiles, fvValue, fvErrors, fvIsValid, fvTimers, fvTimeout,
            fvSince, fvBurst, fvOut>>

appVars == <<selectedFiles, signers, sequentialSigning, enableDocumentAssignment,
             matrix, notices, loading, submitDisabled, inflight, resultVisible,
             processData, lastSubmit, clearCalls, downloaded>>

bootVars == <<i18n, signFormPresent, browserSupported, handlerPc, handlerAttempts,
              appPc, appAttempts, appParts, windowManager, bootAlerts, bootLog,
              errorPanel>>

vars == <<appVars, fvVars, bootVars>>

(***************************************************************************)
(* Program constants.                                                      *)
(***************************************************************************)
maxFiles == 10
maxSigners == 10
maxFileSize == 10 * 1024 * 1024
DefaultAlertDuration == 5000

(***************************************************************************)
(* Strings.                                                                *)
(***************************************************************************)
Whitespace == {" "}

RECURSIVE TrimLeft(_)
TrimLeft(s) ==
    IF s # <<>> /\ Head(s) \in Whitespace THEN TrimLeft(Tail(s)) ELSE s

RECURSIVE TrimRight(_)
TrimRight(s) ==
    IF s # <<>> /\ s[Len(s)] \in Whitespace
    THEN TrimRight(SubSeq(s, 1, Len(s) - 1))
    ELSE s

\* String.prototype.trim
Trim(s) == TrimRight(TrimLeft(s))

UpperCase == <<"A","B","C","D","E","F","G","H","I","J","K","L","M",
               "N","O","P","Q","R","S","T","U","V","W","X","Y","Z">>
LowerCase == <<"a","b","c","d","e","f","g","h","i","j","k","l","m",
               "n","o","p","q","r","s","t","u","v","w","x","y","z">>

LowerChar(c) ==
    IF \E i \in 1..26 : UpperCase[i] = c
    THEN LowerCase[CHOOSE i \in 1..26 : UpperCase[i] = c]
    ELSE c

\* String.prototype.toLowerCase
ToLowerCase(s) == [i \in 1..Len(s) |-> LowerChar(s[i])]

\* fileName.split('.').pop(): the text after the last '.', the whole name
\* when it holds no '.'
LastSegment(s) ==
    LET dots == {i \in 1..Len(s) : s[i] = "."}
    IN  IF dots = {} THEN s
        ELSE SubSeq(s, (CHOOSE i \in dots : \A j \in dots : j <= i) + 1, Len(s))

Digits == <<"0","1","2","3","4","5","6","7","8","9">>

\* the decimal text a number takes inside a template literal or as a
\* property key
RECURSIVE ToStr(_)
ToStr(n) ==
    IF n < 10 THEN <<Digits[n + 1]>>
    ELSE ToStr(n \div 10) \o <<Digits[(n % 10) + 1]>>

(***************************************************************************)
(* Utils.                                                                  *)
(***************************************************************************)
AllowedTypes == { <<".","p","d","f">>, <<".","d","o","c","x">>, <<".","t","x","t">> }

isFileTypeAllowed(fileName, allowedTypes) ==
    (<<".">> \o ToLowerCase(LastSegment(fileName))) \in allowedTypes

\* one Utils.showAlert call: the message (by kind), its type and duration
Alert(msg, type, duration) == [msg |-> msg, type |-> type, duration |-> duration]

\* Utils.generateId for a file: an id none of `used` carries
generateId(used) == CHOOSE i \in 1..(Cardinality(used) + 1) : i \notin used

(***************************************************************************)
(* File Collection.                                                        *)
(***************************************************************************)
Range(s) == {s[i] : i \in DOMAIN s}

FileIds(files) == {files[i].id : i \in DOMAIN files}

MatrixIds(mx) == {mx[i].fileId : i \in DOMAIN mx}

\* ids carried by some live object: the collection, a cell of the visible
\* matrix (a hidden matrix is rebuilt before it is shown or read again), a
\* request in flight
LiveIds ==
    FileIds(selectedFiles)
    \cup (IF enableDocumentAssignment THEN MatrixIds(matrix) ELSE {})
    \cup UNION {FileIds(inflight[i].files) \cup FileIds(inflight[i].filesAtSubmit)
                  \cup MatrixIds(inflight[i].matrixAtSubmit) :
                  i \in DOMAIN inflight}

\* validateFile without its duplicate check
validateFile_NoDuplicateCheck(files, file) ==
    IF file.size > maxFileSize
        THEN <<Alert("file-too-large", "error", DefaultAlertDuration)>>
    ELSE IF ~isFileTypeAllowed(file.name, AllowedTypes)
        THEN <<Alert("file-type", "error", DefaultAlertDuration)>>
    ELSE <<>>

\* validateFile: the alert of the first failing check; <<>> when the file
\* passes (validateFile returns true)
validateFile(files, file) ==
    IF file.size > maxFileSize
        THEN <<Alert("file-too-large", "error", DefaultAlertDuration)>>
    ELSE IF ~isFileTypeAllowed(file.name, AllowedTypes)
        THEN <<Alert("file-type", "error", DefaultAlertDuration)>>
    ELSE IF \E i \in DOMAIN files :
                files[i].name = file.name /\ files[i].size = file.size
        THEN <<Alert("file-duplicate", "warning", DefaultAlertDuration)>>
    ELSE <<>>

\* addFile: the collection with the file's record pushed
addFile(files, file, used) ==
    Append(files, [id |-> generateId(used \cup FileIds(files)),
                   name |-> file.name, size |-> file.size])

RECURSIVE AddEach(_, _, _, _)

\* the forEach of handleFileSelection ending at the first file that
\* validateFile rejects
AddEach_StopsAtRejectedFile(files, batch, used, out) ==
    IF batch = <<>>
    THEN [files |-> files, returnedEarly |-> FALSE, notices |-> out]
    ELSE LET v == validateFile(files, Head(batch))
         IN  IF v = <<>>
             THEN AddEach(addFile(files, Head(batch), used), Tail(batch), used, out)
             ELSE [files |-> files, returnedEarly |-> FALSE, notices |-> out \o v]

\* the forEach of handleFileSelection: [files, notices] after the batch
AddEach(files, batch, used, out) ==
    IF batch = <<>>
    THEN [files |-> files, returnedEarly |-> FALSE, notices |-> out]
    ELSE LET v == validateFile(files, Head(batch))
         IN  IF v = <<>>
             THEN AddEach(addFile(files, Head(batch), used), Tail(batch), used, out)
             ELSE AddEach(files, Tail(batch), used, out \o v)

\* handleFileSelection counting only the files already held
FileSelection_CountsHeldOnly(files, batch, used) ==
    IF Len(files) > maxFiles
    THEN [files |-> files, returnedEarly |-> TRUE,
          notices |-> <<Alert("max-files", "error", DefaultAlertDuration)>>]
    ELSE AddEach(files, batch, used, <<>>)

\* handleFileSelection filling the collection up to maxFiles before it
\* reports the excess
FileSelection_Partial(files, batch, used) ==
    IF Len(files) + Len(batch) > maxFiles
    THEN [files |-> AddEach(files, SubSeq(batch, 1, maxFiles - Len(files)),
                            used, <<>>).files,
          returnedEarly |-> TRUE,
          notices |-> <<Alert("max-files", "error", DefaultAlertDuration)>>]
    ELSE AddEach(files, batch, used, <<>>)

\* handleFileSelection without its display updates
FileSelection(files, batch, used) ==
    IF Len(files) + Len(batch) > maxFiles
    THEN [files |-> files, returnedEarly |-> TRUE,
          notices |-> <<Alert("max-files", "error", DefaultAlertDuration)>>]
    ELSE AddEach(files, batch, used, <<>>)

\* DigitalSignerApp.handleFileChange: an info alert naming files[0]
FileChangeNotices(batch) ==
    IF batch # <<>> THEN <<Alert("file-selected", "info", 3000)>> ELSE <<>>

(***************************************************************************)
(* Assignment matrix.                                                      *)
(***************************************************************************)
\* the input named assignment[<signerIndex>][<file.id>]
Cell(signerIndex, fileId, checked) ==
    [signerIndex |-> ToStr(signerIndex), fileId |-> fileId, checked |-> checked]

\* the rows of updateDocumentAssignmentMatrix: one checked cell per signer
\* position and file, signers outermost
FreshMatrix(files, nSigners) ==
    IF Len(files) = 0 \/ nSigners = 0 THEN <<>>
    ELSE [k \in 1..(nSigners * Len(files)) |->
            Cell((k - 1) \div Len(files),
                 files[((k - 1) % Len(files)) + 1].id, TRUE)]

\* updateDocumentAssignmentMatrix keeping the state of the cells that were
\* rendered before
updateDocumentAssignmentMatrix_KeepsCells(files, nSigners, enabled, old) ==
    IF ~enabled THEN old
    ELSE LET fresh == FreshMatrix(files, nSigners)
         IN  [k \in DOMAIN fresh |->
                 IF \E i \in DOMAIN old :
                        /\ old[i].signerIndex = fresh[k].signerIndex
                        /\ old[i].fileId = fresh[k].fileId
                        /\ ~old[i].checked
                 THEN [fresh[k] EXCEPT !.checked = FALSE]
                 ELSE fresh[k]]

\* updateDocumentAssignmentMatrix: no change unless assignment mode is on
updateDocumentAssignmentMatrix(files, nSigners, enabled, old) ==
    IF ~enabled THEN old ELSE FreshMatrix(files, nSigners)

\* an in-place change of the selectedFiles array is seen by every request
\* that holds the same array
SyncAliases(files) ==
    [i \in DOMAIN inflight |->
        IF inflight[i].aliased THEN [inflight[i] EXCEPT !.files = files]
        ELSE inflight[i]]

\* `this.selectedFiles = []` leaves the old array to the requests holding it
DropAliases ==
    [i \in DOMAIN inflight |-> [inflight[i] EXCEPT !.aliased = FALSE]]

(***************************************************************************)
(* FormValidator (validation.js).  The ARIA attributes, the style classes  *)
(* and the timer that removes the field-valid class are left out.          *)
(***************************************************************************)
\* the names of the rules, in the insertion order of FormValidator.rules
RuleNames == <<"docUpload", "signerName">>

DocUploadFileSize == 10 * 1024 * 1024
SignerNameMinLength == 3
SignerNameMaxLength == 100
DebounceDelay == 300

\* the input events counted in one burst
MaxBurst == 2

\* the characters of the class [a-zA-Z\u00C0-\u00FF\s] that input values are made of
NamePatternChars == Range(UpperCase) \cup Range(LowerCase) \cup Whitespace

\* /^[a-zA-Z\u00C0-\u00FF\s]{3,100}$/.test(value)
NamePatternTest(value) ==
    /\ Len(value) >= SignerNameMinLength
    /\ Len(value) <= SignerNameMaxLength
    /\ \A i \in DOMAIN value : value[i] \in NamePatternChars

\* the validate function of rule docUpload: the error, "" for null.
\* files is field.files; its first entry is the file argument
DocUploadRule(files) ==
    IF files = <<>> THEN "error-file-required"
    ELSE IF ~isFileTypeAllowed(files[1].name, AllowedTypes) THEN "error-file-type"
    ELSE IF files[1].size > DocUploadFileSize THEN "error-file-size"
    ELSE ""

\* the rule of signerName testing the pattern before the lengths
SignerNameRule_PatternFirst(value) ==
    LET v == Trim(value)
    IN  IF v = <<>> THEN "error-name-required"
        ELSE IF ~NamePatternTest(v) THEN "error-name-pattern"
        ELSE IF Len(v) < SignerNameMinLength THEN "error-name-min-length"
        ELSE IF Len(v) > SignerNameMaxLength THEN "error-name-max-length"
        ELSE ""

\* the validate function of rule signerName: the error, "" for null
SignerNameRule(value) ==
    LET v == Trim(value)
    IN  IF v = <<>> THEN "error-name-required"
        ELSE IF Len(v) < SignerNameMinLength THEN "error-name-min-length"
        ELSE IF Len(v) > SignerNameMaxLength THEN "error-name-max-length"
        ELSE IF ~NamePatternTest(v) THEN "error-name-pattern"
        ELSE ""

\* rule.validate(value, file) of validateField
RuleError(field, files, value) ==
    IF field = "docUpload" THEN DocUploadRule(files) ELSE SignerNameRule(value)

\* FormValidator.errors after validateField(field): clearFieldError, then
\* setFieldError when the rule reports an error
ErrorsAfterField(errors, field, files, value) ==
    LET e == RuleError(field, files, value)
    IN  IF e = ""
        THEN [f \in DOMAIN errors \ {field} |-> errors[f]]
        ELSE [f \in DOMAIN errors \cup {field} |->
                 IF f = field THEN e ELSE errors[f]]

NoErrors == [f \in {} |-> ""]

\* FormValidator.errors after validateForm: cleared, then every rule's field
\* validated in insertion order
RECURSIVE ErrorsAfterFields(_, _, _, _)
ErrorsAfterFields(errors, fields, files, value) ==
    IF fields = <<>> THEN errors
    ELSE ErrorsAfterFields(ErrorsAfterField(errors, Head(fields), files, value),
                           Tail(fields), files, value)

\* the ids of the timers that are pending or remembered by a control
TimerIds == {t.id : t \in fvTimers} \cup {fvTimeout[f] : f \in DOMAIN fvTimeout}

\* handleInput without its clearTimeout
TimersAfterInput_NoCancel(field) ==
    fvTimers \cup {[id |-> CHOOSE i \in 1..(Cardinality(TimerIds) + 1) : i \notin TimerIds,
                    field |-> field, left |-> DebounceDelay]}

\* handleInput: clearTimeout(field.validationTimeout), then setTimeout(300)
TimersAfterInput(field) ==
    {t \in fvTimers : t.id # fvTimeout[field]}
    \cup {[id |-> CHOOSE i \in 1..(Cardinality(TimerIds) + 1) : i \notin TimerIds,
           field |-> field, left |-> DebounceDelay]}

\* handleInput(event) for a control that has a rule
handleInput(field) ==
    /\ fvTimers' = TimersAfterInput(field)
    /\ fvTimeout' = [fvTimeout EXCEPT ![field] =
                        CHOOSE i \in 1..(Cardinality(TimerIds) + 1) : i \notin TimerIds]
    /\ fvSince' = [fvSince EXCEPT ![field] = 0]
    /\ fvBurst' = [fvBurst EXCEPT ![field] = IF @ < MaxBurst THEN @ + 1 ELSE @]

\* what getFormData did: nothing yet, an exception, or the data it returned
NotCalled == [kind |-> "none", docUpload |-> <<>>, signerName |-> <<>>]
Threw == [kind |-> "Form is not valid", docUpload |-> <<>>, signerName |-> <<>>]

\* the user types into the control named signerName: the input event
TypesValue(value) ==
    /\ value # fvValue
    /\ fvValue' = value
    /\ handleInput("signerName")
    /\ fvOut' = NotCalled
    /\ UNCHANGED <<fvFiles, fvErrors, fvIsValid>>
    /\ UNCHANGED <<appVars, bootVars>>

\* the user picks files in the control named docUpload: the input event
\* (handleInput), then the change event (handleChange validates at once)
PicksFiles(files) ==
    /\ fvFiles' = files
    /\ handleInput("docUpload")
    /\ fvErrors' = ErrorsAfterField(fvErrors, "docUpload", files, fvValue)
    /\ fvOut' = NotCalled
    /\ UNCHANGED <<fvValue, fvIsValid>>
    /\ UNCHANGED <<appVars, bootVars>>

\* handleBlur(event) for a control that has a rule
handleBlur(field) ==
    /\ fvErrors' = ErrorsAfterField(fvErrors, field, fvFiles, fvValue)
    /\ fvOut' = NotCalled
    /\ UNCHANGED <<fvFiles, fvValue, fvIsValid, fvTimers, fvTimeout, fvSince,
                   fvBurst>>
    /\ UNCHANGED <<appVars, bootVars>>

\* the callback of a timer of handleInput runs when its delay has passed
TimerFires(t) ==
    /\ t \in fvTimers
    /\ t.left = 0
    /\ fvTimers' = fvTimers \ {t}
    /\ fvErrors' = ErrorsAfterField(fvErrors, t.field, fvFiles, fvValue)
    /\ fvBurst' = [fvBurst EXCEPT ![t.field] = 0]
    /\ fvOut' = NotCalled
    /\ UNCHANGED <<fvFiles, fvValue, fvIsValid, fvTimeout, fvSince>>
    /\ UNCHANGED <<appVars, bootVars>>

\* d ms pass; a timer that is due runs before more time passes
TimePasses(d) ==
    /\ \A t \in fvTimers : t.left >= d
    /\ fvTimers' = {[t EXCEPT !.left = @ - d] : t \in fvTimers}
    /\ fvSince' = [f \in DOMAIN fvSince |->
                      IF fvSince[f] + d > DebounceDelay THEN DebounceDelay
                      ELSE fvSince[f] + d]
    /\ fvOut' = NotCalled
    /\ UNCHANGED <<fvFiles, fvValue, fvErrors, fvIsValid, fvTimeout, fvBurst>>
    /\ UNCHANGED <<appVars, bootVars>>

\* FormValidator.validateForm
validateForm ==
    /\ fvErrors' = ErrorsAfterFields(NoErrors, RuleNames, fvFiles, fvValue)
    /\ fvIsValid' = \A k \in DOMAIN RuleNames :
                        RuleError(RuleNames[k], fvFiles, fvValue) = ""
    /\ fvOut' = NotCalled
    /\ UNCHANGED <<fvFiles, fvValue, fvTimers, fvTimeout, fvSince, fvBurst>>
    /\ UNCHANGED <<appVars, bootVars>>

\* the data object of FormValidator.getFormData
CollectedData ==
    [kind |-> "data",
     docUpload |-> IF fvFiles = <<>> THEN <<>>
                   ELSE <<[name |-> fvFiles[1].name, size |-> fvFiles[1].size]>>,
     signerName |-> Trim(fvValue)]

\* FormValidator.getFormData
validatorGetFormData ==
    /\ fvOut' = IF ~fvIsValid THEN Threw ELSE CollectedData
    /\ UNCHANGED <<fvFiles, fvValue, fvErrors, fvIsValid, fvTimers, fvTimeout,
                   fvSince, fvBurst>>
    /\ UNCHANGED <<appVars, bootVars>>

\* FormValidator.reset
validatorReset ==
    /\ fvErrors' = NoErrors
    /\ fvIsValid' = FALSE
    /\ fvOut' = NotCalled
    /\ UNCHANGED <<fvFiles, fvValue, fvTimers, fvTimeout, fvSince, fvBurst>>
    /\ UNCHANGED <<appVars, bootVars>>

(***************************************************************************)
(* Start-up: the DOMContentLoaded handler of script.js and                 *)
(* DigitalSignerApp.init.  The page has the controls MultipleItemsManager  *)
(* looks up; whether it has #signForm, and whether the browser has the     *)
(* required features, is fixed when the page loads.                        *)
(***************************************************************************)
\* the attempts of either polling loop, 100 ms apart
MaxAttempts == 50

\* what init sets up, in its order
AllParts == {"multipleItemsManager", "formValidator", "eventListeners"}

\* i18n.js sets window.i18n
I18nLoads ==
    /\ ~i18n
    /\ i18n' = TRUE
    /\ UNCHANGED <<signFormPresent, browserSupported, handlerPc, handlerAttempts,
                   appPc, appAttempts, appParts, windowManager, bootAlerts,
                   bootLog, errorPanel>>
    /\ UNCHANGED <<appVars, fvVars>>

\* one round of the handler's loop: the condition holds, 100 ms pass
HandlerWaits ==
    /\ handlerPc = "waiting"
    /\ ~i18n /\ handlerAttempts < MaxAttempts
    /\ handlerAttempts' = handlerAttempts + 1
    /\ UNCHANGED <<i18n, signFormPresent, browserSupported, handlerPc, appPc,
                   appAttempts, appParts, windowManager, bootAlerts, bootLog,
                   errorPanel>>
    /\ UNCHANGED <<appVars, fvVars>>

\* the handler leaves its loop: it warns when window.i18n is missing and
\* constructs the app.  The constructor calls init, which runs up to its
\* first await and returns; the handler then copies the app's
\* multipleItemsManager property, not assigned yet, to the window.  Neither
\* the constructor nor init throws, so the handler's catch block, which
\* would write the static error panel, is not entered.
HandlerProceeds ==
    /\ handlerPc = "waiting"
    /\ i18n \/ handlerAttempts >= MaxAttempts
    /\ handlerPc' = "done"
    /\ bootLog' = IF ~i18n THEN Append(bootLog, "warn: i18n not loaded") ELSE bootLog
    /\ appPc' = "waiting"
    /\ appAttempts' = 0
    /\ windowManager' = IF "multipleItemsManager" \in appParts
                         THEN "manager" ELSE "undefined"
    /\ UNCHANGED <<i18n, signFormPresent, browserSupported, handlerAttempts,
                   appParts, bootAlerts, errorPanel>>
    /\ UNCHANGED <<appVars, fvVars>>

\* one round of the loop of waitForDependencies
AppWaits ==
    /\ appPc = "waiting"
    /\ ~i18n /\ appAttempts < MaxAttempts
    /\ appAttempts' = appAttempts + 1
    /\ UNCHANGED <<i18n, signFormPresent, browserSupported, handlerPc,
                   handlerAttempts, appPc, appParts, windowManager, bootAlerts,
                   bootLog, errorPanel>>
    /\ UNCHANGED <<appVars, fvVars>>

\* handleCriticalError: an alert that is not dismissed
CriticalAlert(message) == Alert(message, "error", 0)

\* init after its await, up to its end or to its catch block: the step at
\* which it throws, "" when it does not
InitThrows ==
    IF ~i18n THEN "i18n dependency failed to load"
    ELSE IF ~browserSupported THEN "Unsupported browser features"
    ELSE IF ~signFormPresent THEN "Sign form not found"
    ELSE ""

\* what init has set up when it throws or ends
PartsAfterInit ==
    IF ~i18n \/ ~browserSupported THEN {}
    ELSE IF ~signFormPresent THEN {"multipleItemsManager"}
    ELSE AllParts

\* waitForDependencies leaves its loop and init runs to its end, or to its
\* catch block (Utils.logError, handleCriticalError)
AppProceeds ==
    /\ appPc = "waiting"
    /\ i18n \/ appAttempts >= MaxAttempts
    /\ appParts' = PartsAfterInit
    /\ appPc' = IF InitThrows = "" THEN "ready" ELSE "failed"
    /\ bootLog' = IF InitThrows = "" THEN bootLog
                  ELSE Append(bootLog, "error: App initialization")
    /\ bootAlerts' =
          bootAlerts
          \o (IF i18n /\ ~browserSupported
              THEN <<Alert("unsupported-features", "error", 0)>> ELSE <<>>)
          \o (IF InitThrows = "" THEN <<>> ELSE <<CriticalAlert(InitThrows)>>)
    /\ UNCHANGED <<i18n, signFormPresent, browserSupported, handlerPc,
                   handlerAttempts, appAttempts, windowManager, errorPanel>>
    /\ UNCHANGED <<appVars, fvVars>>

(***************************************************************************)
(* Initial state: start-up has finished on a complete page with            *)
(* window.i18n set; one blank signer item is in the DOM.                   *)
(***************************************************************************)
\* #downloadBtn carries no data-process-data attribute
NoProcessData == [success |-> FALSE]

\* no file has been offered for download
NoDownload == [name |-> <<>>]

BlankSigner == [name |-> <<>>, email |-> <<>>, role |-> "", error |-> ""]

Init ==
    /\ selectedFiles = <<>>
    /\ signers = <<BlankSigner>>
    /\ sequentialSigning = FALSE
    /\ enableDocumentAssignment = FALSE
    /\ matrix = <<>>
    /\ notices = <<>>
    /\ loading = FALSE
    /\ submitDisabled = FALSE
    /\ inflight = <<>>
    /\ resultVisible = FALSE
    /\ processData = NoProcessData
    /\ lastSubmit = "none"
    /\ clearCalls = 0
    /\ downloaded = NoDownload
    /\ fvFiles = <<>>
    /\ fvValue = <<>>
    /\ fvErrors = NoErrors
    /\ fvIsValid = FALSE
    /\ fvTimers = {}
    /\ fvTimeout = [f \in Range(RuleNames) |-> 0]
    /\ fvSince = [f \in Range(RuleNames) |-> DebounceDelay]
    /\ fvBurst = [f \in Range(RuleNames) |-> 0]
    /\ fvOut = NotCalled
    /\ i18n = TRUE
    /\ signFormPresent = TRUE
    /\ browserSupported = TRUE
    /\ handlerPc = "done"
    /\ handlerAttempts = 0
    /\ appPc = "ready"
    /\ appAttempts = 0
    /\ appParts = AllParts
    /\ windowManager = "undefined"
    /\ bootAlerts = <<>>
    /\ bootLog = <<>>
    /\ errorPanel = FALSE

(***************************************************************************)
(* File handlers.                                                          *)
(***************************************************************************)
\* the change event of #docUpload: handleFileSelection, then handleFileChange
DocUploadChange(batch) ==
    LET r == FileSelection(selectedFiles, batch, LiveIds)
    IN  /\ selectedFiles' = r.files
        /\ inflight' = SyncAliases(r.files)
        /\ matrix' = IF r.returnedEarly THEN matrix
                     ELSE updateDocumentAssignmentMatrix(
                              r.files, Len(signers), enableDocumentAssignment, matrix)
        /\ notices' = r.notices \o FileChangeNotices(batch)
        /\ UNCHANGED <<signers, sequentialSigning, enableDocumentAssignment,
                       loading, submitDisabled, resultVisible, processData>>
        /\ lastSubmit' = "none"
        /\ clearCalls' = 0
        /\ downloaded' = NoDownload
        /\ UNCHANGED <<fvVars, bootVars>>

\* removeFile(fileId): splice the first record with that id, if any
RemoveAt(s, i) == SubSeq(s, 1, i - 1) \o SubSeq(s, i + 1, Len(s))

FilesWithout(files, fileId) ==
    IF \E i \in DOMAIN files : files[i].id = fileId
    THEN RemoveAt(files, CHOOSE i \in DOMAIN files :
                      /\ files[i].id = fileId
                      /\ \A j \in 1..(i - 1) : files[j].id # fileId)
    ELSE files

removeFile(fileId) ==
    LET found == \E i \in DOMAIN selectedFiles : selectedFiles[i].id = fileId
        files == FilesWithout(selectedFiles, fileId)
    IN  /\ selectedFiles' = files
        /\ inflight' = SyncAliases(files)
        /\ matrix' = IF found
                     THEN updateDocumentAssignmentMatrix(
                              files, Len(signers), enableDocumentAssignment, matrix)
                     ELSE matrix
        /\ notices' = <<>>
        /\ UNCHANGED <<signers, sequentialSigning, enableDocumentAssignment,
                       loading, submitDisabled, resultVisible, processData>>
        /\ lastSubmit' = "none"
        /\ clearCalls' = 0
        /\ downloaded' = NoDownload
        /\ UNCHANGED <<fvVars, bootVars>>

\* consecutive calls of clearAllFiles that are told apart
MaxClearCalls == 2

\* clearAllFiles raising an alert when there is nothing to clear
clearAllFiles_ComplainsWhenEmpty ==
    /\ selectedFiles' = <<>>
    /\ inflight' = DropAliases
    /\ matrix' = updateDocumentAssignmentMatrix(
                     <<>>, Len(signers), enableDocumentAssignment, matrix)
    /\ notices' = IF selectedFiles = <<>>
                  THEN <<Alert("no-files", "error", DefaultAlertDuration)>>
                  ELSE <<>>
    /\ UNCHANGED <<signers, sequentialSigning, enableDocumentAssignment,
                   loading, submitDisabled, resultVisible, processData>>
    /\ lastSubmit' = "none"
    /\ clearCalls' = IF clearCalls < MaxClearCalls THEN clearCalls + 1 ELSE clearCalls
    /\ downloaded' = NoDownload
    /\ UNCHANGED <<fvVars, bootVars>>

\* clearAllFiles: a new empty array
clearAllFiles ==
    /\ selectedFiles' = <<>>
    /\ inflight' = DropAliases
    /\ matrix' = updateDocumentAssignmentMatrix(
                     <<>>, Len(signers), enableDocumentAssignment, matrix)
    /\ notices' = <<>>
    /\ UNCHANGED <<signers, sequentialSigning, enableDocumentAssignment,
                   loading, submitDisabled, resultVisible, processData>>
    /\ lastSubmit' = "none"
    /\ clearCalls' = IF clearCalls < MaxClearCalls THEN clearCalls + 1 ELSE clearCalls
    /\ downloaded' = NoDownload
    /\ UNCHANGED <<fvVars, bootVars>>

(***************************************************************************)
(* Signer Collection.                                                      *)
(***************************************************************************)
\* addSigner refusing only past maxSigners
AddSignerResult_OffByOne(ss) ==
    IF Len(ss) > maxSigners
    THEN [signers |-> ss, added |-> FALSE,
          notices |-> <<Alert("max-signers", "error", DefaultAlertDuration)>>]
    ELSE [signers |-> Append(ss, BlankSigner), added |-> TRUE, notices |-> <<>>]

\* addSigner: a blank signer item appended, unless maxSigners are present
AddSignerResult(ss) ==
    IF Len(ss) >= maxSigners
    THEN [signers |-> ss, added |-> FALSE,
          notices |-> <<Alert("max-signers", "error", DefaultAlertDuration)>>]
    ELSE [signers |-> Append(ss, BlankSigner), added |-> TRUE, notices |-> <<>>]

addSigner ==
    LET r == AddSignerResult(signers)
    IN  /\ signers' = r.signers
        /\ notices' = r.notices
        /\ matrix' = IF r.added
                     THEN updateDocumentAssignmentMatrix(
                              selectedFiles, Len(r.signers),
                              enableDocumentAssignment, matrix)
                     ELSE matrix
        /\ UNCHANGED <<selectedFiles, sequentialSigning, enableDocumentAssignment,
                       loading, submitDisabled, inflight, resultVisible, processData>>
        /\ lastSubmit' = "none"
        /\ clearCalls' = 0
        /\ downloaded' = NoDownload
        /\ UNCHANGED <<fvVars, bootVars>>

\* removeSigner(signerElement): the item at position i leaves the container,
\* unless it is the only one
RemoveSignerResult(ss, i) ==
    IF Len(ss) <= 1
    THEN [signers |-> ss, removed |-> FALSE,
          notices |-> <<Alert("min-signers", "error", DefaultAlertDuration)>>]
    ELSE [signers |-> RemoveAt(ss, i), removed |-> TRUE, notices |-> <<>>]

removeSigner(i) ==
    LET r == RemoveSignerResult(signers, i)
    IN  /\ signers' = r.signers
        /\ notices' = r.notices
        /\ matrix' = IF r.removed
                     THEN updateDocumentAssignmentMatrix(
                              selectedFiles, Len(r.signers),
                              enableDocumentAssignment, matrix)
                     ELSE matrix
        /\ UNCHANGED <<selectedFiles, sequentialSigning, enableDocumentAssignment,
                       loading, submitDisabled, inflight, resultVisible, processData>>
        /\ lastSubmit' = "none"
        /\ clearCalls' = 0
        /\ downloaded' = NoDownload
        /\ UNCHANGED <<fvVars, bootVars>>

\* the pattern /^[^\s@]+@[^\s@]+\.[^\s@]+$/: no whitespace, one '@' with
\* text before it, and after it a '.' with text on both sides
EmailPatternTest(s) ==
    LET ats == {i \in 1..Len(s) : s[i] = "@"}
    IN  /\ \A i \in 1..Len(s) : s[i] \notin Whitespace
        /\ Cardinality(ats) = 1
        /\ LET at == CHOOSE i \in ats : TRUE
           IN  /\ at > 1
               /\ \E d \in (at + 2)..(Len(s) - 1) : s[d] = "."

\* validateSignerField(input): the error text for one input of a signer
\* item, "" when the input passes
SignerFieldError(signer, field) ==
    IF field = "name" THEN
        IF Trim(signer.name) = <<>> THEN "name-required"
        ELSE IF Len(Trim(signer.name)) < 3 THEN "name-min-length"
        ELSE ""
    ELSE IF field = "email" THEN
        IF Trim(signer.email) = <<>> THEN "email-required"
        ELSE IF ~EmailPatternTest(signer.email) THEN "email-invalid"
        ELSE ""
    ELSE
        IF signer.role = "" THEN "role-required" ELSE ""

\* the inputs of a signer item in document order ('input, select')
SignerFields == <<"name", "email", "role">>

\* validateSignerField: the item's single error container takes the text
validateSignerField(signer, field) ==
    [signer EXCEPT !.error = SignerFieldError(signer, field)]

\* the blur listener of one input of signer item i
BlurSignerField(i, field) ==
    /\ signers' = [signers EXCEPT ![i] = validateSignerField(signers[i], field)]
    /\ notices' = <<>>
    /\ UNCHANGED <<selectedFiles, sequentialSigning, enableDocumentAssignment,
                   matrix, loading, submitDisabled, inflight, resultVisible, processData>>
    /\ lastSubmit' = "none"
    /\ clearCalls' = 0
    /\ downloaded' = NoDownload
    /\ UNCHANGED <<fvVars, bootVars>>

\* the user edits one input of signer item i (the input listener only
\* removes the field-error style)
EditSignerField(i, field, value) ==
    /\ signers' = [signers EXCEPT ![i] =
                      IF field = "name" THEN [@ EXCEPT !.name = value]
                      ELSE IF field = "email" THEN [@ EXCEPT !.email = value]
                      ELSE [@ EXCEPT !.role = value]]
    /\ signers' # signers
    /\ notices' = <<>>
    /\ UNCHANGED <<selectedFiles, sequentialSigning, enableDocumentAssignment,
                   matrix, loading, submitDisabled, inflight, resultVisible, processData>>
    /\ lastSubmit' = "none"
    /\ clearCalls' = 0
    /\ downloaded' = NoDownload
    /\ UNCHANGED <<fvVars, bootVars>>

(***************************************************************************)
(* Request construction and validation.                                    *)
(***************************************************************************)
\* the file ids pushed under one signer index: the checked cells of that
\* index, in document order
CheckedFileIds(mx, key) ==
    LET cells == SelectSeq(mx, LAMBDA c : c.checked /\ c.signerIndex = key)
    IN  [j \in 1..Len(cells) |-> cells[j].fileId]

\* documentAssignments built from every cell, checked or not
AssignmentsOf_EveryCell(mx) ==
    [key \in {mx[i].signerIndex : i \in DOMAIN mx} |->
        LET cells == SelectSeq(mx, LAMBDA c : c.signerIndex = key)
        IN  [j \in 1..Len(cells) |-> cells[j].fileId]]

\* getFormData's documentAssignments object: one property per signer index
\* with a checked cell
AssignmentsOf(mx) ==
    [key \in {mx[i].signerIndex : i \in {j \in DOMAIN mx : mx[j].checked}} |->
        CheckedFileIds(mx, key)]

\* getFormData numbering the signers from 1
getFormData_IndexFromOne ==
    [files |-> selectedFiles,
     aliased |-> TRUE,
     filesAtSubmit |-> selectedFiles,
     resetSince |-> FALSE,
     signers |-> [i \in DOMAIN signers |->
                    [name |-> Trim(signers[i].name),
                     email |-> Trim(signers[i].email),
                     role |-> signers[i].role,
                     index |-> i]],
     sequentialSigning |-> sequentialSigning,
     hasAssignments |-> enableDocumentAssignment,
     documentAssignments |->
         IF enableDocumentAssignment THEN AssignmentsOf(matrix) ELSE <<>>,
     matrixAtSubmit |-> IF enableDocumentAssignment THEN matrix ELSE <<>>]

\* getFormData reading the checkboxes whether or not assignment mode is on
getFormData_ReadsHiddenMatrix ==
    [files |-> selectedFiles,
     aliased |-> TRUE,
     filesAtSubmit |-> selectedFiles,
     resetSince |-> FALSE,
     signers |-> [i \in DOMAIN signers |->
                    [name |-> Trim(signers[i].name),
                     email |-> Trim(signers[i].email),
                     role |-> signers[i].role,
                     index |-> i - 1]],
     sequentialSigning |-> sequentialSigning,
     hasAssignments |-> enableDocumentAssignment \/ matrix # <<>>,
     documentAssignments |-> AssignmentsOf(matrix),
     matrixAtSubmit |-> IF enableDocumentAssignment THEN matrix ELSE <<>>]

\* getFormData: the request.  files is the selectedFiles array itself
\* (aliased); documentAssignments is null unless assignment mode is on.
\* matrixAtSubmit and filesAtSubmit are history: the checkboxes getFormData
\* read and the content of the array, as they stood at submit time;
\* resetSince is history: handleNewSignature has run since.
getFormData ==
    [files |-> selectedFiles,
     aliased |-> TRUE,
     filesAtSubmit |-> selectedFiles,
     resetSince |-> FALSE,
     signers |-> [i \in DOMAIN signers |->
                    [name |-> Trim(signers[i].name),
                     email |-> Trim(signers[i].email),
                     role |-> signers[i].role,
                     index |-> i - 1]],
     sequentialSigning |-> sequentialSigning,
     hasAssignments |-> enableDocumentAssignment,
     documentAssignments |->
         IF enableDocumentAssignment THEN AssignmentsOf(matrix) ELSE <<>>,
     matrixAtSubmit |-> IF enableDocumentAssignment THEN matrix ELSE <<>>]

\* validateAll runs validateSignerField on every input of every signer item
\* in document order: the item's error container keeps the last text
RECURSIVE ValidateFields(_, _)
ValidateFields(signer, fields) ==
    IF fields = <<>> THEN signer
    ELSE ValidateFields(validateSignerField(signer, Head(fields)), Tail(fields))

SignerValid(signer) ==
    \A k \in DOMAIN SignerFields : SignerFieldError(signer, SignerFields[k]) = ""

\* validateAll accepting a form without files
validateAll_IgnoresFiles ==
    [isValid |-> \A i \in DOMAIN signers : SignerValid(signers[i]),
     signers |-> [i \in DOMAIN signers |-> ValidateFields(signers[i], SignerFields)],
     notices |-> <<>>]

\* validateAll: its return value, the signer items and the alerts after it
validateAll ==
    [isValid |-> /\ Len(selectedFiles) # 0
                 /\ \A i \in DOMAIN signers : SignerValid(signers[i]),
     signers |-> [i \in DOMAIN signers |-> ValidateFields(signers[i], SignerFields)],
     notices |-> IF Len(selectedFiles) = 0
                 THEN <<Alert("no-document", "error", DefaultAlertDuration)>>
                 ELSE <<>>]

(***************************************************************************)
(* Signing simulator and submission handler.                               *)
(***************************************************************************)
\* documentAssignments[index]?.includes(file.id)
AssignedTo(req, index, fileId) ==
    /\ ToStr(index) \in DOMAIN req.documentAssignments
    /\ fileId \in Range(req.documentAssignments[ToStr(index)])

\* the signers of one file: all of them, or those whose position has the
\* file among its assignments
FileSigners(req, file) ==
    IF req.hasAssignments
    THEN LET pos == SelectSeq([i \in DOMAIN req.signers |-> i],
                              LAMBDA i : AssignedTo(req, i - 1, file.id))
         IN  [j \in 1..Len(pos) |-> req.signers[pos[j]]]
    ELSE req.signers

\* the status line without its sequentialSigning test
SignerStatus_OrderOnly(req, signer) ==
    IF signer.index > 0 THEN "pending" ELSE "signed"

\* the status line of signMultipleDocuments
SignerStatus(req, signer) ==
    IF req.sequentialSigning /\ signer.index > 0 THEN "pending" ELSE "signed"

\* the outcome signMultipleDocuments resolves with (size in tenths of a
\* byte: file.size * 1.1; the random part of the certificate and process
\* ids and the clock reading of the dates are left out)
SigningResult(req) ==
    [success |-> TRUE,
     fileCount |-> Len(req.files),
     signerCount |-> Len(req.signers),
     sequentialSigning |-> req.sequentialSigning,
     processId |-> "PROC-ID",
     signingResults |->
        [k \in DOMAIN req.files |->
            LET fs == FileSigners(req, req.files[k])
            IN  [document |-> [id |-> req.files[k].id,
                               originalName |-> req.files[k].name,
                               sizeTenths |-> req.files[k].size * 11],
                 signers |-> [j \in DOMAIN fs |->
                                [name |-> fs[j].name,
                                 email |-> fs[j].email,
                                 role |-> fs[j].role,
                                 signatureDate |-> "ISO-DATE",
                                 certificateId |-> "CERT-ID",
                                 status |-> SignerStatus(req, fs[j])]]]]]

\* showLoading leaving the submit button enabled
showLoading_ButtonStaysEnabled(show) ==
    /\ loading' = show
    /\ submitDisabled' = FALSE

\* Utils.showLoading(show): the loading overlay and the submit button
showLoading(show) ==
    /\ loading' = show
    /\ submitDisabled' = show

\* handleSigningError with showAlert's default duration
SigningErrorAlert_AutoDismiss == Alert("signing-error", "error", DefaultAlertDuration)

\* handleSigningError: showAlert(message, 'error', 0)
SigningErrorAlert == Alert("signing-error", "error", 0)

\* handleFormSubmit up to its await.  The browser dispatches no submit
\* event while the form's submit button is disabled.
handleFormSubmit ==
    LET v == validateAll
    IN  /\ ~submitDisabled
        /\ signers' = v.signers
        /\ notices' = v.notices
        /\ IF v.isValid
           THEN /\ inflight' = Append(inflight, getFormData)
                /\ showLoading(TRUE)
                /\ lastSubmit' = "started"
                /\ clearCalls' = 0
                /\ downloaded' = NoDownload
           ELSE /\ inflight' = inflight
                /\ showLoading(FALSE)
                /\ lastSubmit' = "blocked"
                /\ clearCalls' = 0
                /\ downloaded' = NoDownload
        /\ UNCHANGED <<selectedFiles, sequentialSigning, enableDocumentAssignment,
                       matrix, resultVisible, processData>>
        /\ UNCHANGED <<fvVars, bootVars>>

\* the timer of promise k fires and Math.random() >= 0.05: the promise
\* resolves, handleFormSubmit resumes with showMultipleSigningResult and
\* runs its finally block
SigningResolves(k) ==
    /\ k \in DOMAIN inflight
    /\ inflight' = RemoveAt(inflight, k)
    /\ processData' = SigningResult(inflight[k])
    /\ resultVisible' = TRUE
    /\ notices' = <<Alert("signing-started", "success", DefaultAlertDuration)>>
    /\ showLoading(FALSE)
    /\ UNCHANGED <<selectedFiles, signers, sequentialSigning,
                   enableDocumentAssignment, matrix>>
    /\ lastSubmit' = "none"
    /\ clearCalls' = 0
    /\ downloaded' = NoDownload
    /\ UNCHANGED <<fvVars, bootVars>>

\* a rejection whose handler skips the finally block
SigningRejects_LeavesLoading(k) ==
    /\ k \in DOMAIN inflight
    /\ inflight' = RemoveAt(inflight, k)
    /\ notices' = <<SigningErrorAlert>>
    /\ UNCHANGED <<loading, submitDisabled>>
    /\ UNCHANGED <<selectedFiles, signers, sequentialSigning,
                   enableDocumentAssignment, matrix, resultVisible, processData>>
    /\ lastSubmit' = "none"
    /\ clearCalls' = 0
    /\ downloaded' = NoDownload
    /\ UNCHANGED <<fvVars, bootVars>>

\* a rejection after which the same request is sent again
SigningRejects_Retries(k) ==
    /\ k \in DOMAIN inflight
    /\ inflight' = Append(RemoveAt(inflight, k), inflight[k])
    /\ notices' = <<SigningErrorAlert>>
    /\ showLoading(TRUE)
    /\ UNCHANGED <<selectedFiles, signers, sequentialSigning,
                   enableDocumentAssignment, matrix, resultVisible, processData>>
    /\ lastSubmit' = "none"
    /\ clearCalls' = 0
    /\ downloaded' = NoDownload
    /\ UNCHANGED <<fvVars, bootVars>>

\* the timer of promise k fires and Math.random() < 0.05: the promise
\* rejects, handleFormSubmit resumes in its catch block with
\* handleSigningError and runs its finally block
SigningRejects(k) ==
    /\ k \in DOMAIN inflight
    /\ inflight' = RemoveAt(inflight, k)
    /\ notices' = <<SigningErrorAlert>>
    /\ showLoading(FALSE)
    /\ UNCHANGED <<selectedFiles, signers, sequentialSigning,
                   enableDocumentAssignment, matrix, resultVisible, processData>>
    /\ lastSubmit' = "none"
    /\ clearCalls' = 0
    /\ downloaded' = NoDownload
    /\ UNCHANGED <<fvVars, bootVars>>

\* form.reset() restores the defaults of the form's controls; whether the
\* assignment checkboxes belong to the form is decided by the page markup,
\* so the hidden matrix may keep its state, return to all-checked or, when
\* #enableDocumentAssignment is outside the form, be rebuilt without files
MatrixAfterReset ==
    { matrix,
      [i \in DOMAIN matrix |-> [matrix[i] EXCEPT !.checked = TRUE]] }
    \cup (IF enableDocumentAssignment THEN {<<>>} ELSE {})

\* handleNewSignature
handleNewSignature ==
    /\ selectedFiles' = <<>>
    /\ inflight' = [i \in DOMAIN inflight |->
                       [DropAliases[i] EXCEPT !.resetSince = TRUE]]
    /\ matrix' \in MatrixAfterReset
    /\ signers' = <<BlankSigner>>
    /\ sequentialSigning' = FALSE
    /\ enableDocumentAssignment' = FALSE
    /\ resultVisible' = FALSE
    /\ notices' = <<>>
    /\ UNCHANGED <<loading, submitDisabled, processData>>
    /\ lastSubmit' = "none"
    /\ clearCalls' = 0
    /\ downloaded' = NoDownload
    /\ UNCHANGED <<fvVars, bootVars>>

(***************************************************************************)
(* The process report.                                                     *)
(***************************************************************************)
SizeUnits == <<"Bytes", "KB", "MB", "GB">>

RECURSIVE Pow1024(_)
Pow1024(i) == IF i = 0 THEN 1 ELSE 1024 * Pow1024(i - 1)

\* Utils.formatFileSize of a size given in tenths of a byte, at least one
\* byte when it is not 0: the number, in hundredths as toFixed(2) rounds
\* it, and the unit
formatFileSize(tenths) ==
    IF tenths = 0 THEN [hundredths |-> 0, unit |-> "Bytes"]
    ELSE LET i == CHOOSE e \in 0..4 :
                      /\ 10 * Pow1024(e) <= tenths
                      /\ (e < 4 => tenths < 10 * Pow1024(e + 1))
         IN  [hundredths |-> (10 * tenths + (Pow1024(i) \div 2)) \div Pow1024(i),
              unit |-> IF i < Len(SizeUnits) THEN SizeUnits[i + 1] ELSE "undefined"]

\* Utils.formatDate: the date in the long pt-BR form
formatDate(date) == <<"pt-BR", date>>

\* the report printing certificate and date for every signer
simulateProcessReportDownload_CertificateAlways(result) ==
    [name |-> <<"relatorio_processo_", result.processId, ".txt">>,
     processId |-> result.processId,
     signatureType |-> IF result.sequentialSigning THEN "Sequencial" ELSE "Paralela",
     totalDocuments |-> Len(result.signingResults),
     documents |->
        [k \in DOMAIN result.signingResults |->
            LET docResult == result.signingResults[k]
            IN  [documento |-> docResult.document.originalName,
                 tamanho |-> formatFileSize(docResult.document.sizeTenths),
                 signatarios |->
                    [j \in DOMAIN docResult.signers |->
                        LET signer == docResult.signers[j]
                        IN  [line |-> <<signer.name, signer.email, signer.role>>,
                             status |-> IF signer.status = "signed"
                                        THEN "Assinado" ELSE "Pendente",
                             certificado |-> signer.certificateId,
                             data |-> formatDate(signer.signatureDate)]]]]]

\* simulateProcessReportDownload: the name and the lines of the text file
\* (the fixed text apart); "" is a line left empty
simulateProcessReportDownload(result) ==
    [name |-> <<"relatorio_processo_", result.processId, ".txt">>,
     processId |-> result.processId,
     signatureType |-> IF result.sequentialSigning THEN "Sequencial" ELSE "Paralela",
     totalDocuments |-> Len(result.signingResults),
     documents |->
        [k \in DOMAIN result.signingResults |->
            LET docResult == result.signingResults[k]
            IN  [documento |-> docResult.document.originalName,
                 tamanho |-> formatFileSize(docResult.document.sizeTenths),
                 signatarios |->
                    [j \in DOMAIN docResult.signers |->
                        LET signer == docResult.signers[j]
                        IN  [line |-> <<signer.name, signer.email, signer.role>>,
                             status |-> IF signer.status = "signed"
                                        THEN "Assinado" ELSE "Pendente",
                             certificado |-> IF signer.status = "signed"
                                             THEN signer.certificateId ELSE "",
                             data |-> IF signer.status = "signed"
                                      THEN formatDate(signer.signatureDate)
                                      ELSE ""]]]]]

\* handleDownload: the click listener of #downloadBtn, which carries the
\* attribute data-process-data once a result has been shown
handleDownload ==
    /\ processData.success
    /\ downloaded' = simulateProcessReportDownload(processData)
    /\ notices' = <<Alert("report-download-started", "success", 3000)>>
    /\ lastSubmit' = "none"
    /\ clearCalls' = 0
    /\ UNCHANGED <<selectedFiles, signers, sequentialSigning,
                   enableDocumentAssignment, matrix, loading, submitDisabled,
                   inflight, resultVisible, processData>>
    /\ UNCHANGED <<fvVars, bootVars>>

\* the change listener of #enableDocumentAssignment
ToggleDocumentAssignment ==
    /\ enableDocumentAssignment' = ~enableDocumentAssignment
    /\ matrix' = updateDocumentAssignmentMatrix(
                     selectedFiles, Len(signers), enableDocumentAssignment', matrix)
    /\ notices' = <<>>
    /\ UNCHANGED <<selectedFiles, signers, sequentialSigning, loading,
                   submitDisabled, inflight, resultVisible, processData>>
    /\ lastSubmit' = "none"
    /\ clearCalls' = 0
    /\ downloaded' = NoDownload
    /\ UNCHANGED <<fvVars, bootVars>>

\* the user (un)checks #sequentialSigning
ToggleSequential ==
    /\ sequentialSigning' = ~sequentialSigning
    /\ notices' = <<>>
    /\ UNCHANGED <<selectedFiles, signers, enableDocumentAssignment, matrix,
                   loading, submitDisabled, inflight, resultVisible, processData>>
    /\ lastSubmit' = "none"
    /\ clearCalls' = 0
    /\ downloaded' = NoDownload
    /\ UNCHANGED <<fvVars, bootVars>>

\* the user (un)checks cell k of the visible matrix
ToggleCell(k) ==
    /\ enableDocumentAssignment
    /\ k \in DOMAIN matrix
    /\ matrix' = [matrix EXCEPT ![k].checked = ~@]
    /\ notices' = <<>>
    /\ UNCHANGED <<selectedFiles, signers, sequentialSigning,
                   enableDocumentAssignment, loading, submitDisabled, inflight,
                   resultVisible, processData>>
    /\ lastSubmit' = "none"
    /\ clearCalls' = 0
    /\ downloaded' = NoDownload
    /\ UNCHANGED <<fvVars, bootVars>>

(***************************************************************************)
(* The files offered to the file input.                                    *)
(***************************************************************************)
File(name, size) == [name |-> name, size |-> size]

Name_a_pdf  == <<"a", ".", "p", "d", "f">>
Name_b_PDF  == <<"b", ".", "P", "D", "F">>
Name_c_txt  == <<"c", ".", "t", "x", "t">>
Name_d_docx == <<"d", ".", "d", "o", "c", "x">>
Name_e_exe  == <<"e", ".", "e", "x", "e">>
Name_pdf    == <<"p", "d", "f">>

\* thirteen files the checks of validateFile accept, pairwise different in
\* (name, size)
ValidFiles ==
    << File(Name_a_pdf, 1),  File(Name_b_PDF, 1),  File(Name_c_txt, 1),
       File(Name_d_docx, 1), File(Name_a_pdf, 2),  File(Name_b_PDF, 2),
       File(Name_c_txt, 2),  File(Name_d_docx, 2), File(Name_a_pdf, 0),
       File(Name_b_PDF, 0),  File(Name_c_txt, maxFileSize),
       File(Name_d_docx, maxFileSize), File(Name_c_txt, 0) >>

TooLargeFile == File(Name_a_pdf, maxFileSize + 1)
WrongTypeFile == File(Name_e_exe, 1)

\* a file whose name has no '.' in it
UndottedFile == File(Name_pdf, 1)

\* the largest batch one selection offers
MaxBatch == 11

\* the batches of the File Collection specification: runs <<start, length>>
\* of ValidFiles, and batches with rejected files in them
FileBatches ==
    {SubSeq(ValidFiles, w[1], w[1] + w[2] - 1) :
        w \in {<<1, 1>>, <<1, 5>>, <<6, 5>>, <<11, 2>>, <<1, MaxBatch>>}}
    \cup { <<>>,
           <<ValidFiles[12], ValidFiles[12]>>,
           <<TooLargeFile, ValidFiles[11], WrongTypeFile, ValidFiles[1]>> }

SelectFiles == \E batch \in FileBatches : DocUploadChange(batch)

\* removeFile with the id of the first or the last file, or an id no file has
RemoveEndFile ==
    \E fileId \in {selectedFiles[i].id : i \in DOMAIN selectedFiles \cap {Len(selectedFiles)}}
                  \cup {0} :
        removeFile(fileId)

ClearFiles == clearAllFiles

NextFiles == SelectFiles \/ RemoveEndFile \/ ClearFiles

SpecFiles == Init /\ [][NextFiles]_vars

(***************************************************************************)
(* Claims about the File Collection (specification SpecFiles).             *)
(***************************************************************************)
CountNotices(ns, msg) == Cardinality({i \in DOMAIN ns : ns[i].msg = msg})

\* C1: after any sequence of file selections, removals and clears the File
\* Collection holds at most maxFiles = 10 entries.
C1_AtMostMaxFiles == Len(selectedFiles) <= maxFiles

\* the collection is full and the last selection was refused for capacity
C1_Witness ==
    /\ Len(selectedFiles) = maxFiles
    /\ CountNotices(notices, "max-files") = 1

\* C2: no two entries of the File Collection have the same (name, size).
C2_NoDuplicates ==
    \A i, j \in DOMAIN selectedFiles :
        (selectedFiles[i].name = selectedFiles[j].name
         /\ selectedFiles[i].size = selectedFiles[j].size) => i = j

\* one batch offered the same file twice to the empty collection: it is held
\* once and the second copy was reported
C2_Witness ==
    /\ Len(selectedFiles) = 1
    /\ selectedFiles[1].name = ValidFiles[12].name
    /\ selectedFiles[1].size = ValidFiles[12].size
    /\ CountNotices(notices, "file-duplicate") = 1

\* C3: a selection whose batch would take the collection past maxFiles adds
\* no file, leaves the collection as it was and emits exactly one capacity
\* notice.
C3_WholeBatchRejected ==
    [][\A batch \in FileBatches :
          (DocUploadChange(batch) /\ Len(selectedFiles) + Len(batch) > maxFiles)
          => /\ selectedFiles' = selectedFiles
             /\ CountNotices(notices', "max-files") = 1
             /\ \A i \in DOMAIN notices' :
                    notices'[i].msg \in {"max-files", "file-selected"}]_vars

\* a batch of more than maxFiles files was offered to the empty collection
C3_Witness ==
    /\ selectedFiles = <<>>
    /\ CountNotices(notices, "max-files") = 1

(***************************************************************************)
(* The signing workflow (specification Spec): a user with two files and    *)
(* up to MaxSignerItems signer items, who edits the form, submits it and   *)
(* follows one signing to its outcome.                                     *)
(***************************************************************************)
Name_Ana == <<"A", "n", "a">>
Name_Eva_Padded == <<" ", "E", "v", "a", " ">>
Name_Al == <<"A", "l">>
Email_ana == <<"a", "@", "b", ".", "c">>
Email_eva == <<"e", "@", "b", ".", "c">>

\* what the user types into a signer item: two complete, valid signers and
\* one whose name has two characters
SignerProfiles ==
    { [name |-> Name_Ana, email |-> Email_ana, role |-> "assinante"],
      [name |-> Name_Eva_Padded, email |-> Email_eva, role |-> "testemunha"],
      [name |-> Name_Al, email |-> Email_ana, role |-> "assinante"] }

\* the files the user of the signing workflow picks, one per selection
SigningFiles == {ValidFiles[1], ValidFiles[2]}

\* the most signer items the user of the signing workflow keeps
MaxSignerItems == 2

\* the user fills the three inputs of signer item i
FillSignerItem(i, p) ==
    /\ signers' = [signers EXCEPT ![i] =
                      [name |-> p.name, email |-> p.email, role |-> p.role,
                       error |-> @.error]]
    /\ signers' # signers
    /\ notices' = <<>>
    /\ UNCHANGED <<selectedFiles, sequentialSigning, enableDocumentAssignment,
                   matrix, loading, submitDisabled, inflight, resultVisible,
                   processData>>
    /\ lastSubmit' = "none"
    /\ clearCalls' = 0
    /\ downloaded' = NoDownload
    /\ UNCHANGED <<fvVars, bootVars>>

\* the user edits the form while no signing is in flight (the loading
\* overlay is up for the whole flight) and until an outcome is presented
Editing == inflight = <<>> /\ ~processData.success

Unchecked(mx) == {k \in DOMAIN mx : ~mx[k].checked}

\* the most cells the user of the signing workflow leaves unchecked
MaxUnchecked == 2

UserSelectsFile ==
    /\ Editing
    /\ \E f \in SigningFiles : DocUploadChange(<<f>>)

\* the remove button of the last file of the list
UserRemovesFile ==
    /\ Editing
    /\ selectedFiles # <<>>
    /\ removeFile(selectedFiles[Len(selectedFiles)].id)

UserClearsFiles == Editing /\ clearAllFiles

UserAddsSigner == Editing /\ Len(signers) < MaxSignerItems /\ addSigner

UserRemovesSigner == Editing /\ \E i \in DOMAIN signers : removeSigner(i)

UserFillsSigner ==
    /\ Editing
    /\ \E i \in DOMAIN signers, p \in SignerProfiles : FillSignerItem(i, p)

UserTogglesOption ==
    /\ Editing
    /\ (ToggleSequential \/ ToggleDocumentAssignment)

UserTogglesCell ==
    /\ Editing
    /\ \E k \in DOMAIN matrix :
          /\ Cardinality(Unchecked(matrix) \cup {k}) <= MaxUnchecked
          /\ ToggleCell(k)

\* the user presses the submit button until an outcome is presented
UserSubmits == ~processData.success /\ handleFormSubmit

\* the user clicks the download button while the result is displayed
UserDownloads == resultVisible /\ handleDownload

SigningSettles ==
    \E k \in DOMAIN inflight : SigningResolves(k) \/ SigningRejects(k)

Next ==
    \/ UserSelectsFile
    \/ UserRemovesFile
    \/ UserClearsFiles
    \/ UserAddsSigner
    \/ UserRemovesSigner
    \/ UserFillsSigner
    \/ UserTogglesOption
    \/ UserTogglesCell
    \/ UserSubmits
    \/ SigningSettles
    \/ handleNewSignature
    \/ UserDownloads

Spec == Init /\ [][Next]_vars

(***************************************************************************)
(* The Signer Collection on its own (specification SpecSigners): signer    *)
(* items are added up to the limit, removed, edited and reset.             *)
(***************************************************************************)
\* the signer items whose inputs the user of this specification touches
MaxEditedItem == 2

AddsSigner == addSigner

\* the remove button of the first or of the last signer item
RemovesSigner == \E i \in {1, Len(signers)} : removeSigner(i)

EditsSignerName ==
    \E i \in DOMAIN signers \cap 1..MaxEditedItem, v \in {<<>>, Name_Ana, Name_Al} :
        EditSignerField(i, "name", v)

LeavesSignerField ==
    \E i \in DOMAIN signers \cap 1..MaxEditedItem, k \in DOMAIN SignerFields :
        BlurSignerField(i, SignerFields[k])

NextSigners ==
    \/ AddsSigner
    \/ RemovesSigner
    \/ EditsSignerName
    \/ LeavesSignerField
    \/ handleNewSignature

SpecSigners == Init /\ [][NextSigners]_vars

(***************************************************************************)
(* Claims about the Signer Collection (specification SpecSigners).         *)
(***************************************************************************)
\* C4: after any sequence of addSigner, removeSigner and new-signature
\* resets the number of signers is within [1, maxSigners]; addSigner at
\* maxSigners and removeSigner at one signer leave the signer items and the
\* matrix as they were and emit one notice.
C4_SignerCountBounded ==
    /\ [](1 <= Len(signers) /\ Len(signers) <= maxSigners)
    /\ [][/\ (addSigner /\ Len(signers) = maxSigners)
              => /\ signers' = signers
                 /\ matrix' = matrix
                 /\ Len(notices') = 1
                 /\ CountNotices(notices', "max-signers") = 1
           /\ \A i \in DOMAIN signers :
                 (removeSigner(i) /\ Len(signers) = 1)
                 => /\ signers' = signers
                    /\ matrix' = matrix
                    /\ Len(notices') = 1
                    /\ CountNotices(notices', "min-signers") = 1]_vars

\* maxSigners signer items are present, the first one edited, and one more
\* was asked for
C4_Witness ==
    /\ Len(signers) = maxSigners
    /\ signers[1].name = Name_Ana
    /\ CountNotices(notices, "max-signers") = 1

(***************************************************************************)
(* Claims about the signing workflow (specification Spec).                 *)
(***************************************************************************)
\* the signers listed in one document result, without their status
Listed(result) ==
    [j \in DOMAIN result.signers |->
        [name |-> result.signers[j].name,
         email |-> result.signers[j].email,
         role |-> result.signers[j].role]]

\* the signers of a request as an outcome lists them
Persons(ss) ==
    [j \in DOMAIN ss |->
        [name |-> ss[j].name, email |-> ss[j].email, role |-> ss[j].role]]

\* C5: in every successful outcome of a sequential request, every document
\* result that lists a signer has its first listed signer 'signed' and all
\* its other listed signers 'pending'.
C5_FirstListedSigned ==
    (processData.success /\ processData.sequentialSigning)
    => \A k \in DOMAIN processData.signingResults :
          LET ss == processData.signingResults[k].signers
          IN  ss # <<>>
              => /\ ss[1].status = "signed"
                 /\ \A j \in 2..Len(ss) : ss[j].status = "pending"

\* C6: in every successful outcome of a request that is not sequential,
\* every signer status of every document result is 'signed'.
C6_AllSigned ==
    (processData.success /\ ~processData.sequentialSigning)
    => \A k \in DOMAIN processData.signingResults :
          \A j \in DOMAIN processData.signingResults[k].signers :
              processData.signingResults[k].signers[j].status = "signed"

\* a request of two files and two signers that was not sequential succeeded
C6_Witness ==
    /\ processData.success
    /\ ~processData.sequentialSigning
    /\ Len(processData.signingResults) = 2
    /\ \A k \in DOMAIN processData.signingResults :
           Len(processData.signingResults[k].signers) = 2

\* C7: a submit with assignment mode off builds a request without
\* assignments, and the outcome of a request without assignments has one
\* document result per file of the request, in file order, each listing
\* every signer of the request in position order.
C7_FullCrossProduct ==
    [][/\ (handleFormSubmit /\ ~enableDocumentAssignment
                            /\ Len(inflight') = Len(inflight) + 1)
          => LET req == inflight'[Len(inflight')]
             IN  /\ ~req.hasAssignments
                 /\ req.documentAssignments = <<>>
       /\ \A k \in DOMAIN inflight :
             (SigningResolves(k) /\ ~inflight[k].hasAssignments)
             => LET req == inflight[k]
                    res == processData'.signingResults
                IN  /\ processData'.success
                    /\ Len(res) = Len(req.files)
                    /\ \A n \in DOMAIN res :
                          /\ res[n].document.id = req.files[n].id
                          /\ res[n].document.originalName = req.files[n].name
                          /\ Listed(res[n]) = Persons(req.signers)]_vars

\* the outcome of two files and two signers lists both signers under both
\* files while the hidden matrix still holds an unchecked cell
C7_Witness ==
    /\ processData.success
    /\ ~enableDocumentAssignment
    /\ Unchecked(matrix) # {}
    /\ Len(processData.signingResults) = 2
    /\ \A k \in DOMAIN processData.signingResults :
           Len(processData.signingResults[k].signers) = 2

\* cell (position, fileId) of a matrix is present and checked
CellChecked(mx, position, fileId) ==
    \E i \in DOMAIN mx :
        /\ mx[i].signerIndex = ToStr(position)
        /\ mx[i].fileId = fileId
        /\ mx[i].checked

\* the signers of a request whose cell for fileId was checked at submit time
CheckedSigners(req, fileId) ==
    LET pos == SelectSeq([i \in DOMAIN req.signers |-> i],
                         LAMBDA i : CellChecked(req.matrixAtSubmit, i - 1, fileId))
    IN  [j \in 1..Len(pos) |-> req.signers[pos[j]]]

\* C8: a submit with assignment mode on builds assignments that hold file
\* id f under signer position s exactly when cell (s, f) is checked, and the
\* outcome of such a request lists under file f exactly the signers whose
\* cell for f was checked at submit time.
C8_AssignmentsFollowCells ==
    [][/\ (handleFormSubmit /\ enableDocumentAssignment
                            /\ Len(inflight') = Len(inflight) + 1)
          => LET da == inflight'[Len(inflight')].documentAssignments
             IN  /\ \A i \in DOMAIN matrix :
                       matrix[i].checked
                       <=> /\ matrix[i].signerIndex \in DOMAIN da
                           /\ matrix[i].fileId \in Range(da[matrix[i].signerIndex])
                 /\ \A key \in DOMAIN da :
                       \A fileId \in Range(da[key]) :
                           \E i \in DOMAIN matrix :
                               /\ matrix[i].signerIndex = key
                               /\ matrix[i].fileId = fileId
                               /\ matrix[i].checked
       /\ \A k \in DOMAIN inflight :
             (SigningResolves(k) /\ inflight[k].hasAssignments)
             => LET req == inflight[k]
                    res == processData'.signingResults
                IN  /\ Len(res) = Len(req.files)
                    /\ \A n \in DOMAIN res :
                          Listed(res[n])
                          = Persons(CheckedSigners(req, req.files[n].id))]_vars

\* an outcome of two signers in which a document result lists only the
\* second signer, the first one's cell being unchecked
C8_Witness ==
    /\ processData.success
    /\ enableDocumentAssignment
    /\ \E i \in DOMAIN matrix :
          /\ ~matrix[i].checked
          /\ matrix[i].signerIndex = "0"
          /\ \E k \in DOMAIN processData.signingResults :
                /\ processData.signingResults[k].document.id = matrix[i].fileId
                /\ Len(processData.signingResults[k].signers) = 1
                /\ processData.signerCount = 2

\* name, email and role of the signer items, without the inline error text
SignerRecords(ss) ==
    [i \in DOMAIN ss |->
        [name |-> ss[i].name, email |-> ss[i].email, role |-> ss[i].role]]

\* a form the submission must not accept: no file, or a signer item whose
\* name has fewer than three characters, whose email is blank or whose role
\* is not chosen
MustBeBlocked ==
    \/ selectedFiles = <<>>
    \/ \E i \in DOMAIN signers :
          \/ Len(Trim(signers[i].name)) < 3
          \/ Trim(signers[i].email) = <<>>
          \/ signers[i].role = ""

\* C9: a submit on a form that validateAll rejects (no file, or an invalid
\* signer field) starts no signing, does not enter the loading state and
\* leaves the File and Signer collections as they were.
C9_InvalidSubmitBlocked ==
    [][(handleFormSubmit /\ (MustBeBlocked \/ ~validateAll.isValid))
          => /\ ~validateAll.isValid
             /\ inflight' = inflight
             /\ ~loading /\ ~loading'
             /\ ~submitDisabled'
             /\ selectedFiles' = selectedFiles
             /\ SignerRecords(signers') = SignerRecords(signers)
             /\ processData' = processData]_vars

\* a submit was blocked with a file selected and a signer named "Al"
C9_Witness ==
    /\ lastSubmit = "blocked"
    /\ selectedFiles # <<>>
    /\ \E i \in DOMAIN signers :
          /\ signers[i].name = Name_Al
          /\ signers[i].email = Email_ana
    /\ inflight = <<>>

\* C10: when the simulator rejects, the handler shows one error notice of
\* duration 0 (never auto-dismissed), clears the loading state, enables the
\* submit control and leaves the File and Signer collections as they were.
C10_FailureSurfaced ==
    [][\A k \in DOMAIN inflight :
          SigningRejects(k)
          => /\ Len(notices') = 1
             /\ notices'[1].type = "error"
             /\ notices'[1].duration = 0
             /\ ~loading'
             /\ ~submitDisabled'
             /\ selectedFiles' = selectedFiles
             /\ signers' = signers
             /\ processData' = processData
             /\ resultVisible' = resultVisible]_vars

\* a signing of a selected file failed: the error notice is up, nothing is
\* in flight and the submit control is enabled
C10_Witness ==
    /\ inflight = <<>>
    /\ selectedFiles # <<>>
    /\ ~loading
    /\ ~submitDisabled
    /\ ~processData.success
    /\ \E i \in DOMAIN notices :
          notices[i].msg = "signing-error" /\ notices[i].duration = 0

\* C11: at most one signing is in flight at any time; while one is in
\* flight the submit control is disabled and the loading state is on, and a
\* submit starts a signing only when none is outstanding.
C11_OneSigningInFlight ==
    /\ [](/\ Len(inflight) <= 1
          /\ inflight # <<>> => (submitDisabled /\ loading))
    /\ [][(handleFormSubmit /\ inflight' # inflight)
              => (inflight = <<>> /\ Len(inflight') = 1 /\ submitDisabled')]_vars

\* a signing is in flight and the form was reset meanwhile: the submit
\* control is still disabled
C11_Witness ==
    /\ Len(inflight) = 1
    /\ submitDisabled
    /\ selectedFiles = <<>>
    /\ inflight[1].signers # <<>>
    /\ signers = <<BlankSigner>>

(***************************************************************************)
(* More claims about the File Collection (specification SpecFiles).        *)
(***************************************************************************)
\* name and size of the records of a sequence of files
NameSizes(files) ==
    [i \in DOMAIN files |-> [name |-> files[i].name, size |-> files[i].size]]

SameFile(a, b) == a.name = b.name /\ a.size = b.size

\* file i of a batch is to be appended: it is small enough, its type is
\* allowed, and neither the collection nor the batch before it has the file
KeptOf(files, batch, i) ==
    /\ batch[i].size <= maxFileSize
    /\ isFileTypeAllowed(batch[i].name, AllowedTypes)
    /\ \A j \in DOMAIN files : ~SameFile(files[j], batch[i])
    /\ \A j \in 1..(i - 1) : ~SameFile(batch[j], batch[i])

KeptFiles(files, batch) ==
    LET pos == SelectSeq([i \in DOMAIN batch |-> i],
                         LAMBDA i : KeptOf(files, batch, i))
    IN  [j \in 1..Len(pos) |-> batch[pos[j]]]

RejectNotices(ns) ==
    SelectSeq(ns, LAMBDA n : n.msg \in {"file-too-large", "file-type", "file-duplicate"})

\* C12: a batch that fits the capacity is judged file by file: the files
\* that are too large, of a disallowed type or duplicates are skipped with
\* one message each, and all other files of the batch are appended in batch
\* order behind the files already held.
C12_FilesJudgedOneByOne ==
    [][\A batch \in FileBatches :
          (DocUploadChange(batch) /\ Len(selectedFiles) + Len(batch) <= maxFiles)
          => /\ SubSeq(selectedFiles', 1, Len(selectedFiles)) = selectedFiles
             /\ NameSizes(selectedFiles')
                  = NameSizes(selectedFiles) \o NameSizes(KeptFiles(selectedFiles, batch))
             /\ Len(RejectNotices(notices'))
                  = Len(batch) - Len(KeptFiles(selectedFiles, batch))
             /\ CountNotices(notices', "max-files") = 0]_vars

\* the batch <<too large, valid, wrong type, valid>> was offered to the
\* empty collection: the two valid files are held in batch order and the
\* two others were reported
C12_Witness ==
    /\ NameSizes(selectedFiles) = <<ValidFiles[11], ValidFiles[1]>>
    /\ CountNotices(notices, "file-too-large") = 1
    /\ CountNotices(notices, "file-type") = 1

(***************************************************************************)
(* Files of every kind, selected one at a time (specification              *)
(* SpecFileKinds).                                                         *)
(***************************************************************************)
FileKinds ==
    { ValidFiles[1], ValidFiles[2], ValidFiles[4], ValidFiles[11],
      UndottedFile, TooLargeFile, WrongTypeFile }

SelectOneFile == \E f \in FileKinds : DocUploadChange(<<f>>)

NextFileKinds == SelectOneFile \/ RemoveEndFile \/ ClearFiles

SpecFileKinds == Init /\ [][NextFileKinds]_vars

\* the extension of a file name: the text from its last '.' on, in lower
\* case; <<>> for a name without a '.'
Extension(name) ==
    LET dots == {k \in DOMAIN name : name[k] = "."}
    IN  IF dots = {} THEN <<>>
        ELSE ToLowerCase(SubSeq(name, CHOOSE k \in dots : \A d \in dots : d <= k,
                                Len(name)))

\* C13: every entry of the File Collection has size <= maxFileSize and a
\* name whose extension is .pdf, .docx or .txt (case-insensitive); a name
\* without such an extension is never admitted.
C13_SizeAndExtension ==
    \A i \in DOMAIN selectedFiles :
        /\ selectedFiles[i].size <= maxFileSize
        /\ Extension(selectedFiles[i].name) \in AllowedTypes

(***************************************************************************)
(* The FormValidator on its own (specification SpecValidator): a user      *)
(* types a name, picks files and leaves the controls, time passes, and a   *)
(* caller validates the form, reads its data and resets the validator.     *)
(***************************************************************************)
TypedValues == {<<>>, Name_Al, Name_Ana}

PickedFiles == {<<>>, <<ValidFiles[1]>>, <<WrongTypeFile>>, <<TooLargeFile, ValidFiles[1]>>}

\* the amounts of time that pass in one step, in ms
TimeSteps == {100, DebounceDelay}

UserTypes == \E value \in TypedValues : TypesValue(value)

UserPicks == \E files \in PickedFiles : PicksFiles(files)

UserLeavesControl == \E k \in DOMAIN RuleNames : handleBlur(RuleNames[k])

TimerRuns == \E t \in fvTimers : TimerFires(t)

Waits == \E d \in TimeSteps : TimePasses(d)

NextValidator ==
    \/ UserTypes
    \/ UserPicks
    \/ UserLeavesControl
    \/ TimerRuns
    \/ Waits
    \/ validateForm
    \/ validatorGetFormData
    \/ validatorReset

SpecValidator == Init /\ [][NextValidator]_vars

(***************************************************************************)
(* Claims about the FormValidator (specification SpecValidator).           *)
(***************************************************************************)
\* C14: getFormData returns data only when no field error is recorded; in
\* every state with a recorded field error, and in every state in which
\* isValid is false, it fails with 'Form is not valid'.
C14_NoDataWhileInvalid == fvOut.kind = "data" => DOMAIN fvErrors = {}

TimersOf(timers, field) == {t \in timers : t.field = field}

\* C15: every control with a rule has at most one debounce timer pending;
\* an input event leaves exactly one timer of its control pending, set to
\* DebounceDelay = 300 ms; a timer runs 300 ms after the last input event
\* of its control and leaves no timer of that control behind, so that a
\* burst of input events is followed by one run.
C15_LastInputWins ==
    /\ [](\A k \in DOMAIN RuleNames :
              Cardinality(TimersOf(fvTimers, RuleNames[k])) <= 1)
    /\ [][/\ (UserTypes \/ UserPicks)
              => LET field == IF UserTypes THEN "signerName" ELSE "docUpload"
                     mine == TimersOf(fvTimers', field)
                 IN  /\ Cardinality(mine) = 1
                     /\ \A t \in mine : t.left = DebounceDelay /\ t.id = fvTimeout'[field]
                     /\ TimersOf(fvTimers', field) \cap fvTimers = {}
           /\ \A t \in fvTimers :
                 TimerFires(t)
                 => /\ fvSince[t.field] = DebounceDelay
                    /\ TimersOf(fvTimers', t.field) = {}]_vars

\* after a burst of two input events of the control named signerName its
\* one timer is due, 300 ms after the last event
C15_Witness ==
    /\ fvBurst["signerName"] = MaxBurst
    /\ fvSince["signerName"] = DebounceDelay
    /\ \E t \in fvTimers : t.field = "signerName" /\ t.left = 0
    /\ Cardinality(TimersOf(fvTimers, "signerName")) = 1

(***************************************************************************)
(* More claims about the signing workflow (specification Spec).            *)
(***************************************************************************)
\* a matrix with exactly one cell for every pair of a signer position below
\* nSigners and a file of files, every cell checked
OneCheckedCellPerPair(mx, files, nSigners) ==
    /\ Len(mx) = nSigners * Len(files)
    /\ \A i \in DOMAIN mx : mx[i].checked
    /\ \A p \in 0..(nSigners - 1) :
          \A n \in DOMAIN files :
              Cardinality({i \in DOMAIN mx :
                              /\ mx[i].signerIndex = ToStr(p)
                              /\ mx[i].fileId = files[n].id}) = 1

\* the File Collection or the number of signer items changes in this step
CollectionsChange ==
    selectedFiles' # selectedFiles \/ Len(signers') # Len(signers)

\* C16: while assignment mode is on, every cell of the matrix belongs to a
\* current signer position and a current file, and every step that changes
\* the File Collection or the number of signers leaves a matrix with
\* exactly one cell per (signer position, file id) pair, all checked.
C16_MatrixRegenerated ==
    /\ [](enableDocumentAssignment
            => /\ Len(matrix) = Len(signers) * Len(selectedFiles)
               /\ \A i \in DOMAIN matrix :
                     /\ matrix[i].fileId \in FileIds(selectedFiles)
                     /\ \E p \in 0..(Len(signers) - 1) :
                           matrix[i].signerIndex = ToStr(p))
    /\ [][(CollectionsChange /\ enableDocumentAssignment /\ enableDocumentAssignment')
              => OneCheckedCellPerPair(matrix', selectedFiles', Len(signers'))]_vars

\* with assignment mode on, a second file was just selected for two
\* signers: the matrix has its four cells, all checked
C16_Witness ==
    /\ enableDocumentAssignment
    /\ CountNotices(notices, "file-selected") = 1
    /\ Len(selectedFiles) = 2
    /\ Len(signers) = 2
    /\ OneCheckedCellPerPair(matrix, selectedFiles, 2)

\* C17: in the request built at submit time the signer records are the
\* signer items in position order, each with index = its 0-based position,
\* and every key of the assignment mapping is the index of a signer record
\* of the request.
C17_IndexIsPosition ==
    [][(handleFormSubmit /\ Len(inflight') = Len(inflight) + 1)
          => LET req == inflight'[Len(inflight')]
             IN  /\ Len(req.signers) = Len(signers)
                 /\ \A i \in DOMAIN req.signers :
                       /\ req.signers[i].index = i - 1
                       /\ req.signers[i].name = Trim(signers[i].name)
                       /\ req.signers[i].email = Trim(signers[i].email)
                       /\ req.signers[i].role = signers[i].role
                 /\ \A key \in DOMAIN req.documentAssignments :
                       \E i \in DOMAIN req.signers :
                           key = ToStr(req.signers[i].index)]_vars

\* a request of two signers with assignments under both positions is in
\* flight
C17_Witness ==
    /\ Len(inflight) = 1
    /\ inflight[1].hasAssignments
    /\ Len(inflight[1].signers) = 2
    /\ inflight[1].signers[2].index = 1
    /\ DOMAIN inflight[1].documentAssignments = {"0", "1"}

(***************************************************************************)
(* The two name checks side by side (specification SpecNames): one name is *)
(* in the name input of the signer item and in the control named           *)
(* signerName, and the user leaves either control.                         *)
(***************************************************************************)
\* the longest of the short names
MaxNameLen == 3

NameAlphabet == {"A", "b", " ", "1"}

\* a name one character longer than the signerName rule allows
LongName == [i \in 1..(SignerNameMaxLength + 1) |-> "a"]

NameValues ==
    UNION {[1..n -> NameAlphabet] : n \in 0..MaxNameLen} \cup {LongName}

InitNames ==
    \E value \in NameValues :
        /\ selectedFiles = <<>>
        /\ signers = <<[BlankSigner EXCEPT !.name = value]>>
        /\ sequentialSigning = FALSE
        /\ enableDocumentAssignment = FALSE
        /\ matrix = <<>>
        /\ notices = <<>>
        /\ loading = FALSE
        /\ submitDisabled = FALSE
        /\ inflight = <<>>
        /\ resultVisible = FALSE
        /\ processData = NoProcessData
        /\ lastSubmit = "none"
        /\ clearCalls = 0
        /\ downloaded = NoDownload
        /\ fvFiles = <<>>
        /\ fvValue = value
        /\ fvErrors = NoErrors
        /\ fvIsValid = FALSE
        /\ fvTimers = {}
        /\ fvTimeout = [f \in Range(RuleNames) |-> 0]
        /\ fvSince = [f \in Range(RuleNames) |-> DebounceDelay]
        /\ fvBurst = [f \in Range(RuleNames) |-> 0]
        /\ fvOut = NotCalled
        /\ i18n = TRUE
        /\ signFormPresent = TRUE
        /\ browserSupported = TRUE
        /\ handlerPc = "done"
        /\ handlerAttempts = 0
        /\ appPc = "ready"
        /\ appAttempts = 0
        /\ appParts = AllParts
        /\ windowManager = "undefined"
        /\ bootAlerts = <<>>
        /\ bootLog = <<>>
        /\ errorPanel = FALSE

LeavesSignerName == BlurSignerField(1, "name")

LeavesRuleName == handleBlur("signerName")

NextNames == LeavesSignerName \/ LeavesRuleName

SpecNames == InitNames /\ [][NextNames]_vars

\* C18: validateSignerField accepts a signer name exactly when the
\* signerName rule of the FormValidator accepts the same value.
C18_NameChecksAgree ==
    [][/\ LeavesRuleName
          => (("signerName" \notin DOMAIN fvErrors')
              <=> validateSignerField(signers[1], "name").error = "")
       /\ LeavesSignerName
          => ((signers'[1].error = "") <=> SignerNameRule(fvValue) = "")]_vars

(***************************************************************************)
(* Start-up on its own (specification SpecBoot): DOMContentLoaded has       *)
(* fired; window.i18n is set at some time, or never.                       *)
(***************************************************************************)
InitBoot ==
    /\ selectedFiles = <<>>
    /\ signers = <<BlankSigner>>
    /\ sequentialSigning = FALSE
    /\ enableDocumentAssignment = FALSE
    /\ matrix = <<>>
    /\ notices = <<>>
    /\ loading = FALSE
    /\ submitDisabled = FALSE
    /\ inflight = <<>>
    /\ resultVisible = FALSE
    /\ processData = NoProcessData
    /\ lastSubmit = "none"
    /\ clearCalls = 0
    /\ downloaded = NoDownload
    /\ fvFiles = <<>>
    /\ fvValue = <<>>
    /\ fvErrors = NoErrors
    /\ fvIsValid = FALSE
    /\ fvTimers = {}
    /\ fvTimeout = [f \in Range(RuleNames) |-> 0]
    /\ fvSince = [f \in Range(RuleNames) |-> DebounceDelay]
    /\ fvBurst = [f \in Range(RuleNames) |-> 0]
    /\ fvOut = NotCalled
    /\ i18n \in BOOLEAN
    /\ signFormPresent \in BOOLEAN
    /\ browserSupported \in BOOLEAN
    /\ handlerPc = "waiting"
    /\ handlerAttempts = 0
    /\ appPc = "absent"
    /\ appAttempts = 0
    /\ appParts = {}
    /\ windowManager = "unset"
    /\ bootAlerts = <<>>
    /\ bootLog = <<>>
    /\ errorPanel = FALSE

NextBoot ==
    \/ I18nLoads
    \/ HandlerWaits
    \/ HandlerProceeds
    \/ AppWaits
    \/ AppProceeds

SpecBoot == InitBoot /\ [][NextBoot]_vars

(***************************************************************************)
(* Claims about start-up (specification SpecBoot).                         *)
(***************************************************************************)
\* C19: when window.i18n has not appeared within the bounded wait, on a
\* complete page in a supported browser, the failure is logged and
\* initialization still finishes: the collection manager, the validator
\* and the event listeners are set up.
C19_StartsWithoutI18n ==
    (/\ ~i18n
     /\ signFormPresent /\ browserSupported
     /\ handlerPc = "done"
     /\ appPc # "waiting")
    => /\ bootLog # <<>>
       /\ appPc = "ready"
       /\ appParts = AllParts

\* C20: when initialization fails because #signForm is absent or a
\* required browser feature is missing, the static error panel replaces
\* the UI and nothing init has set up remains.
C20_FailureLeavesOnlyPanel ==
    (appPc = "failed" /\ (~signFormPresent \/ ~browserSupported))
    => /\ errorPanel
       /\ appParts = {}

(***************************************************************************)
(* Further claims about the File Collection (specification Spec).          *)
(***************************************************************************)
\* what a handler of the application can change, the history variables apart
AppState == <<selectedFiles, signers, sequentialSigning, enableDocumentAssignment,
              matrix, notices, loading, submitDisabled, inflight, resultVisible,
              processData>>

\* C21: clearAllFiles is idempotent: every call leaves the File Collection
\* empty and sends no alert, and a call that follows another call of
\* clearAllFiles changes nothing.
C21_ClearIdempotent ==
    [][clearAllFiles =>
          /\ selectedFiles' = <<>>
          /\ notices' = <<>>
          /\ (clearCalls >= 1 => AppState' = AppState)]_vars

\* clearAllFiles has been called twice in a row, with assignment mode on
C21_Witness ==
    /\ clearCalls = MaxClearCalls
    /\ selectedFiles = <<>>
    /\ enableDocumentAssignment
    /\ Len(signers) = 2

(***************************************************************************)
(* The rules of the FormValidator on their own (specification SpecRules):  *)
(* the controls named docUpload and signerName hold one choice of files    *)
(* and value, and the validator is run on them.                            *)
(***************************************************************************)
\* a file that fails the type check and the size check
WrongTypeLargeFile == File(Name_e_exe, DocUploadFileSize + 1)

\* a name that is too long and has a digit in it
LongDigitName == [i \in 1..(SignerNameMaxLength + 1) |-> "1"]

RuleValues == NameValues \cup {LongDigitName}

RuleFiles ==
    { <<>>, <<ValidFiles[1]>>, <<WrongTypeFile>>, <<TooLargeFile>>,
      <<WrongTypeLargeFile>>, <<ValidFiles[1], WrongTypeLargeFile>> }

InitRules ==
    \E value \in RuleValues, files \in RuleFiles :
        /\ selectedFiles = <<>>
        /\ signers = <<BlankSigner>>
        /\ sequentialSigning = FALSE
        /\ enableDocumentAssignment = FALSE
        /\ matrix = <<>>
        /\ notices = <<>>
        /\ loading = FALSE
        /\ submitDisabled = FALSE
        /\ inflight = <<>>
        /\ resultVisible = FALSE
        /\ processData = NoProcessData
        /\ lastSubmit = "none"
        /\ clearCalls = 0
        /\ downloaded = NoDownload
        /\ fvFiles = files
        /\ fvValue = value
        /\ fvErrors = NoErrors
        /\ fvIsValid = FALSE
        /\ fvTimers = {}
        /\ fvTimeout = [f \in Range(RuleNames) |-> 0]
        /\ fvSince = [f \in Range(RuleNames) |-> DebounceDelay]
        /\ fvBurst = [f \in Range(RuleNames) |-> 0]
        /\ fvOut = NotCalled
        /\ i18n = TRUE
        /\ signFormPresent = TRUE
        /\ browserSupported = TRUE
        /\ handlerPc = "done"
        /\ handlerAttempts = 0
        /\ appPc = "ready"
        /\ appAttempts = 0
        /\ appParts = AllParts
        /\ windowManager = "undefined"
        /\ bootAlerts = <<>>
        /\ bootLog = <<>>
        /\ errorPanel = FALSE

LeavesRuleControl == \E field \in Range(RuleNames) : handleBlur(field)

ValidatesForm == validateForm

NextRules == LeavesRuleControl \/ ValidatesForm

SpecRules == InitRules /\ [][NextRules]_vars

\* the errors of each field, first in precedence first
ErrorOrder ==
    [docUpload  |-> <<"error-file-required", "error-file-type", "error-file-size">>,
     signerName |-> <<"error-name-required", "error-name-min-length",
                      "error-name-max-length", "error-name-pattern">>]

\* every error that applies to the content of a control, whatever the order
\* of the checks: those of the text control are judged on the trimmed value
Faults(field, files, value) ==
    LET v == Trim(value)
    IN  IF field = "docUpload"
        THEN {e \in Range(ErrorOrder[field]) :
                \/ e = "error-file-required" /\ files = <<>>
                \/ e = "error-file-type" /\ files # <<>>
                     /\ LastSegment(ToLowerCase(files[1].name)) \notin
                            {<<"p","d","f">>, <<"d","o","c","x">>, <<"t","x","t">>}
                \/ e = "error-file-size" /\ files # <<>>
                     /\ files[1].size > 10 * 1024 * 1024}
        ELSE {e \in Range(ErrorOrder[field]) :
                \/ e = "error-name-required" /\ v = <<>>
                \/ e = "error-name-min-length" /\ Len(v) < 3
                \/ e = "error-name-max-length" /\ Len(v) > 100
                \/ e = "error-name-pattern"
                     /\ (Len(v) < 3 \/ Len(v) > 100
                         \/ \E i \in DOMAIN v : v[i] \notin NamePatternChars)}

\* the fault that comes first in the order, "" when there is none
FirstFault(field, files, value) ==
    LET order == ErrorOrder[field]
        hits == {i \in DOMAIN order : order[i] \in Faults(field, files, value)}
    IN  IF hits = {} THEN ""
        ELSE order[CHOOSE i \in hits : \A j \in hits : i <= j]

ErrorOf(errors, field) == IF field \in DOMAIN errors THEN errors[field] ELSE ""

\* C22: validating a field records the first of the errors that apply to
\* it, in the order required, minimum length, maximum length, pattern for
\* the trimmed text value and file-required, type, size for the file, and
\* records none when none applies.
C22_ErrorPrecedence ==
    [][\A field \in Range(RuleNames) :
          (handleBlur(field) \/ validateForm)
          => ErrorOf(fvErrors', field) = FirstFault(field, fvFiles, fvValue)]_vars

\* both fields have been validated with several errors applying to each:
\* a padded one-digit name and a large file of a refused type
C22_Witness ==
    /\ fvValue = <<" ", "1", " ">>
    /\ fvFiles = <<WrongTypeLargeFile>>
    /\ Cardinality(Faults("signerName", fvFiles, fvValue)) > 1
    /\ Cardinality(Faults("docUpload", fvFiles, fvValue)) > 1
    /\ ErrorOf(fvErrors, "signerName") = "error-name-min-length"
    /\ ErrorOf(fvErrors, "docUpload") = "error-file-type"

(***************************************************************************)
(* Further claims about the signing workflow (specification Spec).         *)
(***************************************************************************)
\* C23: a signing attempt starts only in a handleFormSubmit step, one per
\* submit event, and a rejection ends its attempt without starting another.
C23_NoAutomaticRetry ==
    [][/\ Len(inflight') > Len(inflight)
          => /\ handleFormSubmit
             /\ lastSubmit' = "started"
             /\ Len(inflight') = Len(inflight) + 1
       /\ \A k \in DOMAIN inflight :
             SigningRejects(k)
             => /\ Len(inflight') = Len(inflight) - 1
                /\ ~loading' /\ ~submitDisabled']_vars

\* a signing of two files for two signers has failed and nothing is in flight
C23_Witness ==
    /\ notices = <<SigningErrorAlert>>
    /\ inflight = <<>>
    /\ Len(selectedFiles) = 2
    /\ Len(signers) = 2
    /\ ~processData.success

\* the size a report entry prints denotes `tenths` tenths of a byte, up to
\* the rounding to two decimals of its unit
DenotesSize(printed, tenths) ==
    \E i \in DOMAIN SizeUnits :
        /\ printed.unit = SizeUnits[i]
        /\ LET unitTenths == 10 * Pow1024(i - 1)
               diff == printed.hundredths * unitTenths - 100 * tenths
           IN  2 * diff <= unitTenths /\ 2 * diff >= -unitTenths

\* C24: the report offered for download carries the process id, one entry
\* per document result with its name and size, and under it one entry per
\* signer with name, role and status; certificate id and date are printed
\* exactly for the signers whose status is 'signed'.
C24_ReportComplete ==
    downloaded # NoDownload
    => /\ processData.success
       /\ downloaded.processId = processData.processId
       /\ DOMAIN downloaded.documents = DOMAIN processData.signingResults
       /\ \A k \in DOMAIN processData.signingResults :
             LET docResult == processData.signingResults[k]
                 entry == downloaded.documents[k]
             IN  /\ entry.documento = docResult.document.originalName
                 /\ DenotesSize(entry.tamanho, docResult.document.sizeTenths)
                 /\ DOMAIN entry.signatarios = DOMAIN docResult.signers
                 /\ \A j \in DOMAIN docResult.signers :
                       LET signer == docResult.signers[j]
                           printed == entry.signatarios[j]
                       IN  /\ printed.line[1] = signer.name
                           /\ printed.line[3] = signer.role
                           /\ printed.status = "Assinado" <=> signer.status = "signed"
                           /\ printed.status = "Pendente" <=> signer.status # "signed"
                           /\ IF signer.status = "signed"
                              THEN /\ printed.certificado = signer.certificateId
                                   /\ printed.data = formatDate(signer.signatureDate)
                              ELSE /\ printed.certificado = ""
                                   /\ printed.data = ""

\* a report of two documents has been downloaded in which one signer is
\* signed and another is pending
C24_Witness ==
    /\ downloaded # NoDownload
    /\ Len(downloaded.documents) = 2
    /\ \E j1, j2 \in DOMAIN downloaded.documents[1].signatarios :
          /\ downloaded.documents[1].signatarios[j1].status = "Assinado"
          /\ downloaded.documents[1].signatarios[j2].status = "Pendente"

(***************************************************************************)
(* Files picked during a signing (specification SpecInFlight): the user    *)
(* fills the first signer item, picks files with the file control, submits *)
(* and goes on picking files while the signing delay runs.                 *)
(***************************************************************************)
\* the files the user picks, one per selection
LateFiles == {ValidFiles[1], ValidFiles[2], ValidFiles[3]}

FillsFirstSigner == \E p \in SignerProfiles : FillSignerItem(1, p)

PicksFile == \E f \in LateFiles : DocUploadChange(<<f>>)

SubmitsOnce == ~processData.success /\ handleFormSubmit

NextInFlight ==
    \/ FillsFirstSigner
    \/ PicksFile
    \/ SubmitsOnce
    \/ SigningSettles

SpecInFlight == Init /\ [][NextInFlight]_vars

\* C25: the document results of a successful outcome are the files that
\* were in the File Collection when the submit was handled, in that order.
C25_RequestIsSnapshot ==
    [][\A k \in DOMAIN inflight :
          SigningResolves(k)
          => [i \in DOMAIN processData'.signingResults |->
                 processData'.signingResults[i].document.id]
             = [i \in DOMAIN inflight[k].filesAtSubmit |->
                 inflight[k].filesAtSubmit[i].id]]_vars

(***************************************************************************)
(* A further claim about start-up (specification SpecBoot).                *)
(***************************************************************************)
\* C26: once start-up has finished with window.i18n set, the global
\* window.multipleItemsManager is the MultipleItemsManager that init
\* created.
C26_GlobalHandleIsManager ==
    (i18n /\ handlerPc = "done" /\ appPc = "ready")
    => windowManager = "manager"

(***************************************************************************)
(* Further claims about assignments and resets (specification Spec).       *)
(***************************************************************************)
\* C27: every document result of a successful outcome lists at least one
\* signer.
C27_EveryDocumentHasSigner ==
    processData.success
    => \A k \in DOMAIN processData.signingResults :
          processData.signingResults[k].signers # <<>>

\* C28: when validateAll has returned false, every signer item with an
\* invalid name, e-mail or role shows a non-empty inline error message.
C28_InvalidSignerShowsError ==
    lastSubmit = "blocked"
    => \A i \in DOMAIN signers :
          ~SignerValid(signers[i]) => signers[i].error # ""

(***************************************************************************)
(* Resets during a signing (specification SpecReset): after an outcome the *)
(* user may submit the form again, and may click New Signature whenever a  *)
(* result is displayed, also while the next signing is in flight.          *)
(***************************************************************************)
FillsSignerAtRest == inflight = <<>> /\ FillsFirstSigner

PicksFileAtRest ==
    /\ inflight = <<>>
    /\ \E f \in SigningFiles : DocUploadChange(<<f>>)

Submits == handleFormSubmit

ResetsFromResult == resultVisible /\ handleNewSignature

NextReset ==
    \/ FillsSignerAtRest
    \/ PicksFileAtRest
    \/ Submits
    \/ SigningSettles
    \/ ResetsFromResult

SpecReset == Init /\ [][NextReset]_vars

\* C29: the result of a signing request that was in flight when
\* handleNewSignature ran is not displayed: when such a request resolves
\* the result section stays hidden.
C29_StaleResultNotShown ==
    [][\A k \in DOMAIN inflight :
          (SigningResolves(k) /\ inflight[k].resetSince)
          => ~resultVisible']_vars

(***************************************************************************)
(* Completion of signings (specification SpecResetFair): the timer that    *)
(* signMultipleDocuments sets fires after at most five seconds, so a       *)
(* pending promise is eventually settled.                                  *)
(***************************************************************************)
SpecResetFair == SpecReset /\ WF_vars(SigningSettles)

\* C30: a signing in flight is eventually settled, with the loading state
\* cleared and the submit button enabled; a promise leaves the set of
\* pending ones only by resolving or rejecting, one at a time, and either
\* way the loading state is cleared and the button enabled in that step.
C30_SigningCompletesOnce ==
    /\ [](inflight # <<>> => <>(inflight = <<>> /\ ~loading /\ ~submitDisabled))
    /\ [][Len(inflight') < Len(inflight)
            => /\ Len(inflight') = Len(inflight) - 1
               /\ \E k \in DOMAIN inflight : SigningResolves(k) \/ SigningRejects(k)
               /\ ~loading' /\ ~submitDisabled']_vars

\* a second signing has failed after a first one succeeded, and the form
\* can be submitted again
C30_Witness ==
    /\ processData.success
    /\ notices = <<SigningErrorAlert>>
    /\ inflight = <<>>
    /\ ~loading
    /\ ~submitDisabled

====
